---- MODULE Spec2Model ----
(***************************************************************************)
(* Session orchestrator of the claude-mem worker (SDKAgent.startSession,   *)
(* its message generator and its reply handling), with the pending-message *)
(* queue, the observation store and the session registry it talks to.      *)
(* One session is modelled; it may be run by several orchestrators, one    *)
(* after the other.                                                        *)
(***************************************************************************)
EXTENDS Integers, Sequences, FiniteSets, TLC

\* ------------------------------------------------------------------ bounds
MaxMsgs == 2        \* pending messages enqueued over a behaviour of Spec, SpecFrames
MaxQueued == 3      \* pending messages enqueued over a behaviour of SpecCancel
MaxTokMsgs == 1     \* pending messages enqueued over a behaviour of SpecTokens
MaxObs == 2         \* observations parsed from one reply
MaxRuns == 2        \* startSession calls over a behaviour
MaxPrompt == 2      \* largest prompt_number a message carries
MaxRows == 3        \* rows the store receives over a behaviour
MaxTok == 2         \* largest token count in a usage record
MaxLiveMsgs == 5    \* pending messages enqueued over a behaviour of SpecLive
MaxLiveRows == 6    \* rows the store receives over a behaviour of SpecLive
MaxQueries == 2     \* queries of the token routes over a behaviour of SpecCache
MaxTableRows == 2   \* observations inserted over a behaviour of SpecMetrics
MaxTrackerCalls == 3 \* recordObservationProcessed calls over a behaviour of SpecTracker
MaxTimed == 5       \* recordObservationProcessed calls over a behaviour of SpecTimes
MaxLateCalls == 2   \* recordObservationProcessed calls over a behaviour of SpecLate
MaxSinceRows == 2   \* observations inserted over a behaviour of SpecSince
MaxSinceCalls == 2  \* recordObservationProcessed calls over a behaviour of SpecSince

\* ------------------------------------------------------- program constants
KeepProcessed == 100   \* cleanupProcessed(100)
CACHE_TTL_MS == 30000              \* TTL of the cached metrics
PROJECTION_CACHE_TTL_MS == 300000  \* TTL of the cached projection
CHARS_PER_TOKEN == 4               \* characters counted as one read token
DefaultObservationCount == 50      \* observationCount = 50 of the projection
MAX_QUEUE_HISTORY == 1000          \* queue-depth samples the tracker keeps
MAX_PROCESSING_TIMES == 500        \* processing-time records the tracker keeps
SAMPLE_INTERVAL_MS == 5000         \* least time between two queue-depth samples
DefaultLimit == 100                \* limit = 100 of the tracker's queries
MCP_INIT_TIMEOUT_MS == 15000       \* the timer of the MCP connection

\* a field that is absent (undefined) in a JavaScript record
Undef == -1

VARIABLES
    queue,          \* pending-message store: rows [id, type, prompt_number, state]
    session,        \* the ActiveSession object of the session
    loops,          \* number of startSession loops running for the session
    runs,           \* startSession calls made so far
    gen,            \* position of createMessageGenerator: "none" | "init" | "iter" | "done"
    yielded,        \* ids the message iterator of this run has yielded
    frames,         \* frames this run has sent to the analyzer, in order
    frameSeq,       \* frames sent to the analyzer over all runs
    answered,       \* frames of this run whose assistant reply has been handled
    store,          \* observation/summary rows, in insert order (id = position)
    replyLog,       \* effects of the most recent reply handling, in order
    runLog,         \* effects of the end of the most recent startSession, in order
    outcome,        \* the most recent startSession: the lastPromptNumber it started
                    \* with, how it ended, pendingProcessingIds when it ended
    completed,      \* markSessionCompleted calls for the session
    rejected,       \* ids of the rows of that reply whose vector sync rejects
    replied,        \* ids of messages whose own frame has had its reply handled
    sent,           \* ids of messages some run has yielded to the analyzer
    cancelSnap,     \* what the store and the queue held when the handle last fired
    lastReply,      \* the most recent reply this run has handled, and the ids that
                    \* were in pendingProcessingIds when it arrived
    clock,          \* Date.now(), in milliseconds
    worker,         \* the WorkerService: lastTokenBroadcast, tokenMetricsService
    metrics,        \* the TokenMetricsService: its cache
    events,         \* the token_update events the broadcaster has been given
    calls,          \* the broadcastTokenUpdate calls made so far, in order
    lastQuery,      \* the most recent query of the token routes and its answer
    table,          \* the observations table with its text columns, in insert order
    tracker,        \* the PerformanceTracker: queueHistory, processingTimes,
                    \* lastSampleTime
    calc            \* the most recent call of a metrics or tracker method made
                    \* directly: its arguments, what it read and what it returned

\* the worker's side of the state
liveVars == <<clock, worker, metrics, events, calls, lastQuery>>

\* the session orchestrator's side of the state
agentVars == <<queue, session, loops, runs, gen, yielded, frames, frameSeq, answered,
               store, replyLog, runLog, outcome, completed, rejected, replied, sent,
               cancelSnap, lastReply>>

\* the state the metrics arithmetic and the performance tracker work on
calcVars == <<table, tracker, calc>>

vars == <<agentVars, liveVars, calcVars>>

\* ----------------------------------------------------------------- helpers
RECURSIVE SeqSum(_)
SeqSum(s) == IF s = <<>> THEN 0 ELSE Head(s) + SeqSum(Tail(s))

IsPrefix(s, t) == Len(s) <= Len(t) /\ SubSeq(t, 1, Len(s)) = s

\* the ids of a sequence of queue rows, in order
Ids(q) == [i \in DOMAIN q |-> q[i].id]

PendingRows(q) == SelectSeq(q, LAMBDA m : m.state = "pending")

\* ------------------------------------------------ pending-message queue (C2)
\* ids are handed out in increasing order
NextId(q) == IF q = <<>> THEN 1 ELSE q[Len(q)].id + 1

\* enqueue(sessionId, message): a new pending row with the next id
enqueue(q, type, pn) ==
    Append(q, [id |-> NextId(q), type |-> type, prompt_number |-> pn,
               state |-> "pending"])

\* markProcessed(messageId)
markProcessed(q, id) ==
    [i \in DOMAIN q |-> IF q[i].id = id THEN [q[i] EXCEPT !.state = "processed"]
                        ELSE q[i]]

RECURSIVE markAll(_, _)
markAll(q, ids) ==
    IF ids = {} THEN q
    ELSE LET id == CHOOSE x \in ids : TRUE
         IN  markAll(markProcessed(q, id), ids \ {id})

\* cleanupProcessed(keepLast): keeps the keepLast most recent processed rows,
\* deletes the older processed rows, returns the remaining rows
cleanupProcessed(q, keepLast) ==
    LET proc == {i \in DOMAIN q : q[i].state = "processed"}
        old  == {i \in proc : Cardinality({j \in proc : j > i}) >= keepLast}
        kept == [i \in DOMAIN q |-> i \notin old]
        F[i \in 0..Len(q)] ==
            IF i = 0 THEN <<>>
            ELSE IF kept[i] THEN Append(F[i - 1], q[i]) ELSE F[i - 1]
    IN  F[Len(q)]

\* iterate(sessionId): the next row the iterator yields, the oldest pending row
\* it has not yielded yet; 0 when it has to wait
NextPending(q, done) ==
    LET cand == {i \in DOMAIN q : q[i].state = "pending" /\ q[i].id \notin done}
    IN  IF cand = {} THEN 0
        ELSE CHOOSE i \in cand : \A j \in cand : i <= j

\* ------------------------------------------------------- token accounting
NoUsage == [present |-> FALSE, input_tokens |-> Undef, output_tokens |-> Undef,
            cache_creation_input_tokens |-> Undef, cache_read_input_tokens |-> Undef]

MkUsage(i, o, cc, cr) ==
    [present |-> TRUE, input_tokens |-> i, output_tokens |-> o,
     cache_creation_input_tokens |-> cc, cache_read_input_tokens |-> cr]

\* the values a field of a usage record takes: absent, zero or a count
TokenVals == {Undef, 0, MaxTok}

\* every usage record over these values, and a reply without one
Usages ==
    {NoUsage} \cup {MkUsage(i, o, cc, cr) : i \in TokenVals, o \in TokenVals,
                                            cc \in TokenVals, cr \in TokenVals}

\* the usage record of the replies when the token counts are not under study
PlainUsages == {MkUsage(2, 1, Undef, 3)}

\* x || 0
OrZero(x) == IF x = Undef THEN 0 ELSE x

\* the truthiness test of if (x)
Truthy(x) == x # Undef /\ x # 0

\* as trackUsage, with the cache reads counted too
trackUsage_CacheRead(s, usage) ==
    IF ~usage.present THEN s
    ELSE [s EXCEPT
            !.cumulativeInputTokens =
                @ + OrZero(usage.input_tokens)
                  + OrZero(usage.cache_creation_input_tokens)
                  + OrZero(usage.cache_read_input_tokens),
            !.cumulativeOutputTokens = @ + OrZero(usage.output_tokens)]

\* lines 93-112: the cumulative counters after a reply with this usage
trackUsage(s, usage) ==
    IF ~usage.present THEN s
    ELSE [s EXCEPT
            !.cumulativeInputTokens =
                @ + OrZero(usage.input_tokens)
                  + (IF Truthy(usage.cache_creation_input_tokens)
                     THEN usage.cache_creation_input_tokens ELSE 0),
            !.cumulativeOutputTokens = @ + OrZero(usage.output_tokens)]

\* as discoveryTokensOf, with the two totals exchanged
discoveryTokensOf_Swapped(before, after) ==
    (before.cumulativeInputTokens + before.cumulativeOutputTokens)
    - (after.cumulativeInputTokens + after.cumulativeOutputTokens)

\* lines 90 and 115: the delta of the cumulative counters over one reply
discoveryTokensOf(before, after) ==
    (after.cumulativeInputTokens + after.cumulativeOutputTokens)
    - (before.cumulativeInputTokens + before.cumulativeOutputTokens)

\* the figure the specification gives for one reply
UsageTotal(usage) ==
    IF ~usage.present THEN 0
    ELSE OrZero(usage.input_tokens) + OrZero(usage.cache_creation_input_tokens)
         + OrZero(usage.output_tokens)

\* ------------------------------------------------- token metrics service
\* The observations table as the metrics service reads it: the observation
\* rows of the store, all of the project of the session. A result is modelled
\* by the figures the rows of the model determine: the number of observations
\* it was computed from and the sum of their discovery tokens.
SessionProject == "claude-mem"
NoProject == ""

\* project || 'all'
projectOrAll(project) == IF project = NoProject THEN "all" ELSE project

\* SELECT ... FROM observations [WHERE project = ?]
observationsOf(rows, project) ==
    SelectSeq(rows, LAMBDA r : /\ r.kind = "observation"
                               /\ (project = NoProject \/ project = SessionProject))

totalsOf(obs) ==
    [observations    |-> Len(obs),
     discoveryTokens |-> SeqSum([i \in DOMAIN obs |-> obs[i].discovery_tokens])]

\* as getCached, without the test of the age of the entry
getCached_NoTtl(cache, key, ttl, now) ==
    IF key \in DOMAIN cache THEN [hit |-> TRUE, data |-> cache[key].data]
    ELSE [hit |-> FALSE, data |-> totalsOf(<<>>)]

\* lines 114-120: the entry of the key when it is younger than ttl
getCached(cache, key, ttl, now) ==
    IF key \in DOMAIN cache /\ (now - cache[key].timestamp) < ttl
    THEN [hit |-> TRUE, data |-> cache[key].data]
    ELSE [hit |-> FALSE, data |-> totalsOf(<<>>)]

\* lines 122-127
setCache(cache, key, data, now) ==
    [k \in DOMAIN cache \cup {key} |->
        IF k = key THEN [data |-> data, timestamp |-> now] ELSE cache[k]]

\* lines 132-138: every key when no project is given, else the keys that
\* hold the name of the project and the summary keys
invalidateCache(cache, project) ==
    LET dropped == {k \in DOMAIN cache :
                       \/ project = NoProject
                       \/ k.project = project
                       \/ k.query = "summary"}
    IN  [k \in DOMAIN cache \ dropped |-> cache[k]]

\* the shape the six queries share: the cached answer when there is one,
\* else the figures of the rows, stored under the key
cachedQuery(m, key, ttl, obs, now) ==
    LET c == getCached(m.cache, key, ttl, now)
    IN  IF c.hit THEN [data |-> c.data, hit |-> TRUE, metrics |-> m]
        ELSE [data |-> totalsOf(obs), hit |-> FALSE,
              metrics |-> [m EXCEPT !.cache = setCache(@, key, totalsOf(obs), now)]]

\* lines 226-293
getSummary(m, rows, now, project) ==
    cachedQuery(m, [query |-> "summary", project |-> projectOrAll(project)],
                CACHE_TTL_MS, observationsOf(rows, project), now)

\* lines 298-360: no project filter, the key holds the limit
getByProject(m, rows, now, project) ==
    cachedQuery(m, [query |-> "by-project", project |-> "10"],
                CACHE_TTL_MS, observationsOf(rows, NoProject), now)

\* lines 365-424
getByType(m, rows, now, project) ==
    cachedQuery(m, [query |-> "by-type", project |-> projectOrAll(project)],
                CACHE_TTL_MS, observationsOf(rows, project), now)

\* lines 429-503
getTimeSeries(m, rows, now, project) ==
    cachedQuery(m, [query |-> "time-series", project |-> projectOrAll(project)],
                CACHE_TTL_MS, observationsOf(rows, project), now)

\* lines 508-585: the rows with discovery_tokens > 0
getCompressionMetrics(m, rows, now, project) ==
    cachedQuery(m, [query |-> "compression", project |-> projectOrAll(project)],
                CACHE_TTL_MS,
                SelectSeq(observationsOf(rows, project), LAMBDA r : r.discovery_tokens > 0),
                now)

\* lines 591-678: the all-zero projection of an empty table is cached too
getEndlessModeProjection(m, rows, now, project) ==
    cachedQuery(m, [query |-> "projection", project |-> projectOrAll(project)],
                PROJECTION_CACHE_TTL_MS, observationsOf(rows, project), now)

\* ------------------------------------------------ token arithmetic
\* A row of the observations table with its text columns. A text column is
\* the number of its characters, or Undef when it is NULL. A column that holds
\* JSON is NULL, an array of strings (the lengths of its elements and the
\* length of the stored string) or a string that is not a JSON array.
JsonNull == [kind |-> "null", elems |-> <<>>, raw |-> 0]

\* the stored string of an array of plain strings: brackets, quotes around
\* every element, commas between them
stringifyLength(elems) ==
    2 + SeqSum([i \in DOMAIN elems |-> elems[i] + 2])
      + (IF Len(elems) > 1 THEN Len(elems) - 1 ELSE 0)

JsonArray(elems) == [kind |-> "array", elems |-> elems, raw |-> stringifyLength(elems)]

JsonText(n) == [kind |-> "text", elems |-> <<>>, raw |-> n]

\* Math.ceil(a / b) and Math.round(a / b) for b > 0, in exact arithmetic
ceilDiv(a, b) == (a + b - 1) \div b

roundDiv(a, b) == (2 * a + b) \div (2 * b)

\* lines 162-173: arr.join('').length of an array, the length of the string
\* otherwise, 0 for null, undefined and ''
getJsonArrayContentLength(j) ==
    IF j.kind = "null" \/ j.raw = 0 THEN 0
    ELSE IF j.kind = "array" THEN SeqSum(j.elems)
    ELSE j.raw

\* as calculateReadTokens, with Math.floor
calculateReadTokens_Floor(obs) ==
    (OrZero(obs.title) + OrZero(obs.subtitle) + OrZero(obs.narrative)
     + getJsonArrayContentLength(obs.facts)
     + getJsonArrayContentLength(obs.concepts)
     + getJsonArrayContentLength(obs.files_read)
     + getJsonArrayContentLength(obs.files_modified)) \div CHARS_PER_TOKEN

\* lines 160-184
calculateReadTokens(obs) ==
    ceilDiv(OrZero(obs.title) + OrZero(obs.subtitle) + OrZero(obs.narrative)
            + getJsonArrayContentLength(obs.facts)
            + getJsonArrayContentLength(obs.concepts)
            + getJsonArrayContentLength(obs.files_read)
            + getJsonArrayContentLength(obs.files_modified),
            CHARS_PER_TOKEN)

\* as estimateOriginalSize, without the doubling
estimateOriginalSize_Same(discoveryTokens) == discoveryTokens

\* lines 190-192
estimateOriginalSize(discoveryTokens) == discoveryTokens * 2

\* the row a SELECT of the service returns (lines 252-256, 602-608): title,
\* subtitle, narrative, facts and discovery_tokens are selected; concepts,
\* files_read and files_modified are not, and are undefined in the row
ObservationRow(r) ==
    [r EXCEPT !.concepts = JsonNull, !.files_read = JsonNull,
              !.files_modified = JsonNull]

\* WHERE project = ? AND created_at_epoch >= ?, each condition only when its
\* parameter is truthy (lines 239-250)
whereClause(rows, project, sinceEpoch) ==
    SelectSeq(rows, LAMBDA r :
        /\ (project # NoProject => r.project = project)
        /\ (Truthy(sinceEpoch) => r.created_at_epoch >= sinceEpoch))

\* lines 236-289: the summary computed from the table; efficiencyGain, a
\* number with one decimal, is held in tenths
TokenSummary(rows, project, sinceEpoch) ==
    LET selected == whereClause(rows, project, sinceEpoch)
        observations == [i \in DOMAIN selected |-> ObservationRow(selected[i])]
        totalReadTokens ==
            SeqSum([i \in DOMAIN observations |-> calculateReadTokens(observations[i])])
        totalDiscoveryTokens ==
            SeqSum([i \in DOMAIN observations |-> OrZero(observations[i].discovery_tokens)])
        totalObservations == Len(observations)
        savings == totalDiscoveryTokens - totalReadTokens
    IN  [totalObservations    |-> totalObservations,
         totalReadTokens      |-> totalReadTokens,
         totalDiscoveryTokens |-> totalDiscoveryTokens,
         savings              |-> savings,
         savingsPercent       |-> IF totalDiscoveryTokens > 0
                                  THEN roundDiv(savings * 100, totalDiscoveryTokens)
                                  ELSE 0,
         efficiencyGain       |-> IF totalReadTokens > 0
                                  THEN roundDiv(totalDiscoveryTokens * 10, totalReadTokens)
                                  ELSE 0,
         avgReadTokensPerObs  |-> IF totalObservations > 0
                                  THEN roundDiv(totalReadTokens, totalObservations)
                                  ELSE 0,
         avgDiscoveryTokensPerObs |-> IF totalObservations > 0
                                      THEN roundDiv(totalDiscoveryTokens, totalObservations)
                                      ELSE 0]

\* the read tokens of a row as the SQL of the aggregating queries computes
\* them (lines 313-320, 694-701): the lengths of title, subtitle, narrative
\* and of the stored facts string ('[]' when NULL), divided by 4.0 and cast
\* to an integer
sqlReadTokens(r) ==
    (OrZero(r.title) + OrZero(r.subtitle) + OrZero(r.narrative)
     + (IF r.facts.kind = "null" THEN 2 ELSE r.facts.raw)) \div CHARS_PER_TOKEN

\* SUM(discovery_tokens): the sum of the values that are not NULL, NULL when
\* there is none
sqlSumDiscovery(rows) ==
    LET given == SelectSeq(rows, LAMBDA r : r.discovery_tokens # Undef)
    IN  IF given = <<>> THEN Undef
        ELSE SeqSum([i \in DOMAIN given |-> given[i].discovery_tokens])

\* SUM(CAST(... AS INTEGER)): NULL over no rows
sqlSumReadTokens(rows) ==
    IF rows = <<>> THEN Undef ELSE SeqSum([i \in DOMAIN rows |-> sqlReadTokens(rows[i])])

\* lines 339-353: a row of the by-project result
TokensByProject(project, rows) ==
    LET discovery_tokens == sqlSumDiscovery(rows)
        read_tokens == sqlSumReadTokens(rows)
        savings == OrZero(discovery_tokens) - OrZero(read_tokens)
    IN  [project         |-> project,
         observations    |-> Len(rows),
         readTokens      |-> OrZero(read_tokens),
         discoveryTokens |-> OrZero(discovery_tokens),
         savings         |-> savings,
         savingsPercent  |-> IF discovery_tokens > 0
                             THEN roundDiv(savings * 100, discovery_tokens)
                             ELSE 0]

\* lines 309-357: GROUP BY project ORDER BY discovery_tokens DESC LIMIT ?;
\* groups with the same sum are listed in the order of their names
byProjectRows(rows, limit, sinceEpoch) ==
    LET selected == whereClause(rows, NoProject, sinceEpoch)
        names == {selected[i].project : i \in DOMAIN selected}
        group(p) == TokensByProject(p, SelectSeq(selected, LAMBDA r : r.project = p))
        key(p) == sqlSumDiscovery(SelectSeq(selected, LAMBDA r : r.project = p))
        before(p, q) == key(p) > key(q) \/ (key(p) = key(q) /\ p = SessionProject)
        ordered == CHOOSE o \in [1..Cardinality(names) -> names] :
                       /\ \A i, j \in DOMAIN o : i # j => o[i] # o[j]
                       /\ \A i, j \in DOMAIN o : i < j => before(o[i], o[j])
        n == IF Cardinality(names) < limit THEN Cardinality(names) ELSE limit
    IN  [projects      |-> [i \in 1..n |-> group(ordered[i])],
         totalProjects |-> Cardinality(names)]

\* lines 683-718
getQuickSummary(rows) ==
    LET totalDiscoveryTokens == OrZero(sqlSumDiscovery(rows))
        totalReadTokens == OrZero(sqlSumReadTokens(rows))
        savings == totalDiscoveryTokens - totalReadTokens
    IN  [totalDiscoveryTokens |-> totalDiscoveryTokens,
         totalReadTokens      |-> totalReadTokens,
         savings              |-> savings,
         savingsPercent       |-> IF totalDiscoveryTokens > 0
                                  THEN roundDiv(savings * 100, totalDiscoveryTokens)
                                  ELSE 0]

\* ORDER BY created_at_epoch DESC LIMIT ? (lines 602-608)
mostRecent(rows, limit) ==
    LET n == Len(rows)
        order == CHOOSE o \in [1..n -> 1..n] :
                     /\ \A i, j \in 1..n : i # j => o[i] # o[j]
                     /\ \A i, j \in 1..n :
                          i < j => rows[o[i]].created_at_epoch >= rows[o[j]].created_at_epoch
        m == IF n < limit THEN n ELSE limit
    IN  [i \in 1..m |-> rows[order[i]]]

NoTotals == [totalDiscovery |-> 0, cumulativeContext |-> 0, totalContinuation |-> 0]

\* lines 622-636: the loop of the simulation without Endless Mode
RECURSIVE simulateWithout(_, _)
simulateWithout(observations, acc) ==
    IF observations = <<>> THEN acc
    ELSE LET discoveryTokens == OrZero(Head(observations).discovery_tokens)
             originalSize == estimateOriginalSize(discoveryTokens)
             context == acc.cumulativeContext + originalSize
         IN  simulateWithout(Tail(observations),
                 [totalDiscovery    |-> acc.totalDiscovery + discoveryTokens,
                  cumulativeContext |-> context,
                  totalContinuation |-> acc.totalContinuation + context])

\* lines 638-652: the loop of the simulation with Endless Mode
RECURSIVE simulateWith(_, _)
simulateWith(observations, acc) ==
    IF observations = <<>> THEN acc
    ELSE LET discoveryTokens == OrZero(Head(observations).discovery_tokens)
             compressedSize == calculateReadTokens(Head(observations))
             context == acc.cumulativeContext + compressedSize
         IN  simulateWith(Tail(observations),
                 [totalDiscovery    |-> acc.totalDiscovery + discoveryTokens,
                  cumulativeContext |-> context,
                  totalContinuation |-> acc.totalContinuation + context])

\* lines 599-674: the projection computed from the table; percentSaved and
\* efficiencyGain, numbers with one decimal, are held in tenths
EndlessModeProjection(rows, project, observationCount) ==
    LET selected == mostRecent(whereClause(rows, project, Undef), observationCount)
        observations == [i \in DOMAIN selected |-> ObservationRow(selected[i])]
        without == simulateWithout(observations, NoTotals)
        with == simulateWith(observations, NoTotals)
        withoutTotal == without.totalDiscovery + without.totalContinuation
        withTotal == with.totalDiscovery + with.totalContinuation
        tokensSaved == withoutTotal - withTotal
    IN  [withoutEndlessMode |-> [totalTokens        |-> withoutTotal,
                                 discoveryTokens    |-> without.totalDiscovery,
                                 continuationTokens |-> without.totalContinuation],
         withEndlessMode    |-> [totalTokens        |-> withTotal,
                                 discoveryTokens    |-> with.totalDiscovery,
                                 continuationTokens |-> with.totalContinuation],
         tokensSaved        |-> tokensSaved,
         percentSaved       |-> IF withoutTotal > 0
                                THEN roundDiv(tokensSaved * 1000, withoutTotal)
                                ELSE 0,
         efficiencyGain     |-> IF withTotal > 0
                                THEN roundDiv(withoutTotal * 10, withTotal)
                                ELSE 0]

\* --------------------------------------------------------- time parsing
Hour == 60 * 60 * 1000
Day == 24 * Hour
Week == 7 * Day

\* A since string: absent, digits followed by h, d or w (its number and its
\* unit), a string Date.parse accepts (the instant it denotes), or any other
\* string.
NoSince == [kind |-> "absent", value |-> 0, unit |-> "", epoch |-> 0]

RelativeSince(value, unit) ==
    [kind |-> "relative", value |-> value, unit |-> unit, epoch |-> 0]

DateSince(epoch) == [kind |-> "date", value |-> 0, unit |-> "", epoch |-> epoch]

OtherSince == [kind |-> "other", value |-> 0, unit |-> "", epoch |-> 0]

\* TokenMetricsService lines 197-217, PerformanceTracker lines 195-214; null
\* is Undef
parseSince(since, now) ==
    CASE since.kind = "absent"   -> Undef
      [] since.kind = "relative" ->
            now - (IF since.unit = "h" THEN since.value * Hour
                   ELSE IF since.unit = "d" THEN since.value * Day
                   ELSE since.value * Week)
      [] since.kind = "date"     -> since.epoch
      [] OTHER                   -> Undef

\* x || y for a number or null x
orElse(x, y) == IF Truthy(x) THEN x ELSE y

\* ---------------------------------------------------- performance tracker
\* the last n elements of a sequence: slice(-n)
lastOf(s, n) == IF Len(s) <= n THEN s ELSE SubSeq(s, Len(s) - n + 1, Len(s))

\* sort((a, b) => a - b)
RECURSIVE sortAscending(_)
sortAscending(s) ==
    IF s = <<>> THEN <<>>
    ELSE LET rest == sortAscending(Tail(s))
             less == SelectSeq(rest, LAMBDA x : x <= Head(s))
             more == SelectSeq(rest, LAMBDA x : x > Head(s))
         IN  less \o <<Head(s)>> \o more

RECURSIVE maxOf(_)
maxOf(s) ==
    IF Len(s) = 1 THEN s[1]
    ELSE IF Head(s) >= maxOf(Tail(s)) THEN Head(s) ELSE maxOf(Tail(s))

\* as recordQueueSample, without the throttle
recordQueueSample_NoThrottle(tr, now, queueDepth, activeSessions) ==
    LET pushed == Append(tr.queueHistory,
                         [timestamp |-> now, queueDepth |-> queueDepth,
                          activeSessions |-> activeSessions])
    IN  [tr EXCEPT !.lastSampleTime = now,
                   !.queueHistory = IF Len(pushed) > MAX_QUEUE_HISTORY
                                    THEN Tail(pushed) ELSE pushed]

\* lines 68-87
recordQueueSample(tr, now, queueDepth, activeSessions) ==
    IF now - tr.lastSampleTime < SAMPLE_INTERVAL_MS THEN tr
    ELSE LET pushed == Append(tr.queueHistory,
                              [timestamp |-> now, queueDepth |-> queueDepth,
                               activeSessions |-> activeSessions])
         IN  [tr EXCEPT !.lastSampleTime = now,
                        !.queueHistory = IF Len(pushed) > MAX_QUEUE_HISTORY
                                         THEN Tail(pushed) ELSE pushed]

\* as recordProcessingTime, dropping the newest record of a full buffer
recordProcessingTime_DropNewest(tr, record) ==
    LET pushed == Append(tr.processingTimes, record)
    IN  [tr EXCEPT !.processingTimes = IF Len(pushed) > MAX_PROCESSING_TIMES
                                       THEN tr.processingTimes ELSE pushed]

\* lines 92-99
recordProcessingTime(tr, record) ==
    LET pushed == Append(tr.processingTimes, record)
    IN  [tr EXCEPT !.processingTimes = IF Len(pushed) > MAX_PROCESSING_TIMES
                                       THEN Tail(pushed) ELSE pushed]

\* WorkerService lines 708-721: the record is pushed with the time read at
\* line 710, then a queue sample is taken with the time recordQueueSample
\* reads itself (PerformanceTracker line 69), which is the same or later
recordObservationProcessed(tr, now, later, durationMs, tokens, count, depth, active) ==
    recordQueueSample(
        recordProcessingTime(tr, [timestamp |-> now, duration |-> durationMs,
                                  discoveryTokens |-> tokens,
                                  observationCount |-> count]),
        later, depth, active)

\* as percentile, with the index rounded down
percentile_Floor(sortedArray, p) ==
    IF Len(sortedArray) = 0 THEN 0
    ELSE LET index == (p * Len(sortedArray)) \div 100 - 1
             last == Len(sortedArray) - 1
             clamped == IF index < 0 THEN 0 ELSE IF index > last THEN last ELSE index
         IN  sortedArray[clamped + 1]

\* lines 216-220; sortedArray[i] of the code is sortedArray[i + 1] here
percentile(sortedArray, p) ==
    IF Len(sortedArray) = 0 THEN 0
    ELSE LET index == ceilDiv(p * Len(sortedArray), 100) - 1
             last == Len(sortedArray) - 1
             clamped == IF index < 0 THEN 0 ELSE IF index > last THEN last ELSE index
         IN  sortedArray[clamped + 1]

\* lines 104-126; avgQueueDepth, a number with one decimal, is held in tenths
getQueueHistory(tr, since, limit, now) ==
    LET sinceEpoch == orElse(parseSince(since, now), now - Hour)
        filtered == lastOf(SelectSeq(tr.queueHistory,
                                     LAMBDA q : q.timestamp >= sinceEpoch), limit)
        depths == [i \in DOMAIN filtered |-> filtered[i].queueDepth]
    IN  [history |-> filtered,
         stats |-> [avgQueueDepth  |-> IF Len(depths) > 0
                                       THEN roundDiv(SeqSum(depths) * 10, Len(depths))
                                       ELSE 0,
                    peakQueueDepth |-> IF Len(depths) > 0 THEN maxOf(depths) ELSE 0]]

\* lines 131-173; observationsPerMinute, a number with one decimal, is held
\* in tenths
getProcessingTimes(tr, since, limit, now) ==
    LET sinceEpoch == orElse(parseSince(since, now), now - Day)
        filtered == lastOf(SelectSeq(tr.processingTimes,
                                     LAMBDA r : r.timestamp >= sinceEpoch), limit)
        durations == sortAscending([i \in DOMAIN filtered |-> filtered[i].duration])
        n == Len(durations)
        timeSpan == IF n > 0 THEN filtered[n].timestamp - filtered[1].timestamp ELSE 0
        effectiveTimeSpan == IF timeSpan > 1 THEN timeSpan ELSE 1
        totalObservations ==
            SeqSum([i \in DOMAIN filtered |-> orElse(filtered[i].observationCount, 1)])
        queueStats == getQueueHistory(tr, since, DefaultLimit, now)
    IN  [times |-> filtered,
         stats |-> [avgProcessingTime |-> IF n > 0 THEN roundDiv(SeqSum(durations), n)
                                          ELSE 0,
                    p50ProcessingTime |-> IF n > 0 THEN percentile(durations, 50) ELSE 0,
                    p95ProcessingTime |-> IF n > 0 THEN percentile(durations, 95) ELSE 0,
                    avgQueueDepth     |-> queueStats.stats.avgQueueDepth,
                    peakQueueDepth    |-> queueStats.stats.peakQueueDepth,
                    observationsPerMinute |->
                        IF n > 0
                        THEN roundDiv(totalObservations * 60000 * 10, effectiveTimeSpan)
                        ELSE 0]]

\* ------------------------------------------------------- worker service
\* part_001 lines 441-442: dbManager.initialize() has resolved
databaseInitialized(w) == [w EXCEPT !.init = "db", !.initSteps = @ \cup {"db"}]

\* lines 444-478: the search routes, the token metrics service and its routes
\* are created and registered, then the MCP connection is started together
\* with its timer and awaited
routesRegistered(w, now) ==
    [w EXCEPT !.tokenMetricsService = TRUE, !.init = "mcp",
              !.initSteps = @ \cup {"routes"}, !.mcpStart = now]

\* lines 478-485: the connection won the race; its timer, whose firing no
\* longer has an effect, is forgotten
mcpConnected(w) ==
    [w EXCEPT !.mcpReady = TRUE, !.initializationCompleteFlag = TRUE,
              !.init = "done", !.initSteps = @ \cup {"mcp"}, !.mcpStart = 0]

\* as initializeFailed, with the initialization signalled as complete all the
\* same
initializeFailed_Signalled(w) ==
    [w EXCEPT !.init = "failed", !.initializationCompleteFlag = TRUE]

\* lines 486-490: the catch block logs and rethrows; nothing is signalled
initializeFailed(w) == [w EXCEPT !.init = "failed"]

\* lines 155-167: the status the readiness endpoint answers with
readiness(w) == IF w.initializationCompleteFlag THEN 200 ELSE 503

\* as broadcastTokenUpdate, without the throttle
broadcastTokenUpdate_NoThrottle(st) ==
    LET r == getSummary(st.metrics, st.store, st.now, NoProject)
    IN  [st EXCEPT
           !.worker.lastTokenBroadcast = st.now,
           !.metrics = r.metrics,
           !.events = Append(@, [type |-> "token_update", tokens |-> r.data,
                                 at |-> st.now,
                                 rows |-> Len(observationsOf(st.store, NoProject))]),
           !.calls = Append(@, [at |-> st.now, passed |-> TRUE, emitted |-> TRUE])]

\* as broadcastTokenUpdate, with the time of a dropped call kept as well
broadcastTokenUpdate_StampOnDrop(st) ==
    IF st.now - st.worker.lastTokenBroadcast < 1000
    THEN [st EXCEPT !.worker.lastTokenBroadcast = st.now,
                    !.calls = Append(@, [at |-> st.now, passed |-> FALSE,
                                         emitted |-> FALSE])]
    ELSE broadcastTokenUpdate_NoThrottle(st)

\* part_001 lines 675-697; of an event, at and rows are not in the program:
\* the time of the emission and the observations the store held then
broadcastTokenUpdate(st) ==
    IF st.now - st.worker.lastTokenBroadcast < 1000
    THEN [st EXCEPT !.calls = Append(@, [at |-> st.now, passed |-> FALSE,
                                         emitted |-> FALSE])]
    ELSE IF ~st.worker.tokenMetricsService
    THEN [st EXCEPT !.worker.lastTokenBroadcast = st.now,
                    !.calls = Append(@, [at |-> st.now, passed |-> TRUE,
                                         emitted |-> FALSE])]
    ELSE LET r == getSummary(st.metrics, st.store, st.now, NoProject)
         IN  [st EXCEPT
                !.worker.lastTokenBroadcast = st.now,
                !.metrics = r.metrics,
                !.events = Append(@, [type |-> "token_update", tokens |-> r.data,
                                      at |-> st.now,
                                      rows |-> Len(observationsOf(st.store, NoProject))]),
                !.calls = Append(@, [at |-> st.now, passed |-> TRUE, emitted |-> TRUE])]

\* ------------------------------------------------------- reply handling
\* startSession is given the worker, with its broadcaster and its tracker.
\* A reply as the handling sees it: rp.empty (no text), rp.nObs observations
\* and rp.hasSummary from the parser, rp.failAt the store write that throws
\* (0: none; the summary is write nObs + 1), rp.rej the observations (and
\* nObs + 1 for the summary) whose vector sync will reject, rp.frame the
\* sequence number of the frame the reply answers, rp.expect UsageTotal of it.
\* The handling works on st = [store, queue, pending, log, error, syncRej]
\* and the worker's side [now, worker, metrics, events, calls];
\* st.error the name of the error that was thrown ("none": none);
\* st.syncRej are the ids of the rows whose sync promise rejects: its catch
\* handler (lines 305-311, 388-393) runs later and only writes to the logger.

RECURSIVE SortedSeq(_)
SortedSeq(S) ==
    IF S = {} THEN <<>>
    ELSE LET m == CHOOSE x \in S : \A y \in S : x <= y
         IN  <<m>> \o SortedSeq(S \ {m})

\* as markMessagesProcessed, marking every message of the queue
markMessagesProcessed_All(st) ==
    [st EXCEPT
       !.queue = cleanupProcessed([i \in DOMAIN @ |-> [@[i] EXCEPT !.state = "processed"]],
                                  KeepProcessed),
       !.pending = {},
       !.log = @ \o << <<"cleanupProcessed", KeepProcessed>>, <<"processing_status", 0>> >>]

\* as markMessagesProcessed, with the old rows cleaned up before the marking
markMessagesProcessed_CleanupFirst(st) ==
    LET ids == SortedSeq(st.pending)
        s1  == IF st.pending # {}
               THEN [st EXCEPT
                       !.queue = markAll(cleanupProcessed(@, KeepProcessed), st.pending),
                       !.pending = {},
                       !.log = @ \o << <<"cleanupProcessed", KeepProcessed>> >>
                                 \o [i \in DOMAIN ids |-> <<"markProcessed", ids[i]>>]]
               ELSE st
    IN  [s1 EXCEPT !.log = Append(@, <<"processing_status", 0>>)]

\* lines 424-450
markMessagesProcessed(st) ==
    LET ids == SortedSeq(st.pending)
        s1  == IF st.pending # {}
               THEN [st EXCEPT
                       !.queue = cleanupProcessed(markAll(@, st.pending), KeepProcessed),
                       !.pending = {},
                       !.log = @ \o [i \in DOMAIN ids |-> <<"markProcessed", ids[i]>>]
                                 \o << <<"cleanupProcessed", KeepProcessed>> >>]
               ELSE st
    IN  [s1 EXCEPT !.log = Append(@, <<"processing_status", 0>>)]

\* as storeObservationStep, awaiting the vector sync: its rejection is thrown
storeObservationStep_AwaitSync(st, i, rp, promptNumber, discoveryTokens) ==
    LET id  == Len(st.store) + 1
        row == [id |-> id, kind |-> "observation", idx |-> i,
                prompt_number |-> promptNumber,
                discovery_tokens |-> discoveryTokens,
                frame |-> rp.frame, expect |-> rp.expect]
    IN  IF i \in rp.rej
        THEN [st EXCEPT
                !.store = Append(@, row),
                !.log = @ \o << <<"storeObservation", id>>, <<"syncObservation", id>> >>,
                !.syncRej = @ \cup {id},
                !.error = "ChromaError"]
        ELSE [st EXCEPT
                !.store = Append(@, row),
                !.log = @ \o << <<"storeObservation", id>>, <<"syncObservation", id>>,
                                <<"new_observation", id>>, <<"broadcastTokenUpdate", id>> >>]

\* as storeObservationStep, with the event emitted before the row is written
storeObservationStep_AnnounceFirst(st, i, rp, promptNumber, discoveryTokens) ==
    LET id  == Len(st.store) + 1
        row == [id |-> id, kind |-> "observation", idx |-> i,
                prompt_number |-> promptNumber,
                discovery_tokens |-> discoveryTokens,
                frame |-> rp.frame, expect |-> rp.expect]
    IN  broadcastTokenUpdate(
          [st EXCEPT
             !.store = Append(@, row),
             !.log = @ \o << <<"new_observation", id>>, <<"storeObservation", id>>,
                             <<"syncObservation", id>>, <<"broadcastTokenUpdate", id>> >>,
             !.syncRej = @ \cup (IF i \in rp.rej THEN {id} ELSE {})])

\* lines 266-338: one turn of the loop, for the i-th parsed observation
storeObservationStep(st, i, rp, promptNumber, discoveryTokens) ==
    LET id  == Len(st.store) + 1
        row == [id |-> id, kind |-> "observation", idx |-> i,
                prompt_number |-> promptNumber,
                discovery_tokens |-> discoveryTokens,
                frame |-> rp.frame, expect |-> rp.expect]
    IN  broadcastTokenUpdate(
          [st EXCEPT
             !.store = Append(@, row),
             !.log = @ \o << <<"storeObservation", id>>, <<"syncObservation", id>>,
                             <<"new_observation", id>>, <<"broadcastTokenUpdate", id>> >>,
             !.syncRej = @ \cup (IF i \in rp.rej THEN {id} ELSE {})])

\* as observationLoop, taking the observations last to first
RECURSIVE observationLoop_Reversed(_, _, _, _, _)
observationLoop_Reversed(st, i, rp, promptNumber, discoveryTokens) ==
    IF st.error # "none" \/ i > rp.nObs THEN st
    ELSE IF rp.failAt = i THEN [st EXCEPT !.error = "StoreError"]
    ELSE observationLoop_Reversed(
             storeObservationStep(st, rp.nObs + 1 - i, rp, promptNumber, discoveryTokens),
             i + 1, rp, promptNumber, discoveryTokens)

\* lines 265-339: the loop over the parsed observations, from the i-th on
RECURSIVE observationLoop(_, _, _, _, _)
observationLoop(st, i, rp, promptNumber, discoveryTokens) ==
    IF st.error # "none" \/ i > rp.nObs THEN st
    ELSE IF rp.failAt = i THEN [st EXCEPT !.error = "StoreError"]
    ELSE observationLoop(storeObservationStep(st, i, rp, promptNumber, discoveryTokens),
                         i + 1, rp, promptNumber, discoveryTokens)

\* lines 352-414
storeSummaryStep(st, rp, promptNumber, discoveryTokens) ==
    LET id  == Len(st.store) + 1
        row == [id |-> id, kind |-> "summary", idx |-> rp.nObs + 1,
                prompt_number |-> promptNumber,
                discovery_tokens |-> discoveryTokens,
                frame |-> rp.frame, expect |-> rp.expect]
    IN  [st EXCEPT
           !.store = Append(@, row),
           !.log = @ \o << <<"storeSummary", id>>, <<"syncSummary", id>>,
                           <<"new_summary", id>> >>,
           !.syncRej = @ \cup (IF (rp.nObs + 1) \in rp.rej THEN {id} ELSE {})]

\* as processSDKResponse, with the pending ids marked before the records of
\* the reply are persisted
processSDKResponse_MarkFirst(st, rp, promptNumber, discoveryTokens) ==
    LET s0 == markMessagesProcessed(st)
        s1 == observationLoop([s0 EXCEPT !.log = Append(@, <<"parseObservations", rp.nObs>>)],
                              1, rp, promptNumber, discoveryTokens)
        s2 == IF s1.error = "none" /\ rp.nObs > 0
              THEN [s1 EXCEPT !.log = Append(@, <<"recordObservationProcessed", rp.nObs>>)]
              ELSE s1
        s3 == IF s2.error # "none" THEN s2
              ELSE [s2 EXCEPT !.log = Append(@, <<"parseSummary",
                                                  IF rp.hasSummary THEN 1 ELSE 0>>)]
    IN  IF s3.error # "none" \/ ~rp.hasSummary THEN s3
        ELSE IF rp.failAt = rp.nObs + 1 THEN [s3 EXCEPT !.error = "StoreError"]
        ELSE storeSummaryStep(s3, rp, promptNumber, discoveryTokens)

\* lines 258-418
processSDKResponse(st, rp, promptNumber, discoveryTokens) ==
    LET s0 == [st EXCEPT !.log = Append(@, <<"parseObservations", rp.nObs>>)]
        s1 == observationLoop(s0, 1, rp, promptNumber, discoveryTokens)
        s2 == IF s1.error = "none" /\ rp.nObs > 0
              THEN [s1 EXCEPT !.log = Append(@, <<"recordObservationProcessed", rp.nObs>>)]
              ELSE s1
        s3 == IF s2.error # "none" THEN s2
              ELSE [s2 EXCEPT !.log = Append(@, <<"parseSummary",
                                                  IF rp.hasSummary THEN 1 ELSE 0>>)]
        s4 == IF s3.error # "none" \/ ~rp.hasSummary THEN s3
              ELSE IF rp.failAt = rp.nObs + 1 THEN [s3 EXCEPT !.error = "StoreError"]
              ELSE storeSummaryStep(s3, rp, promptNumber, discoveryTokens)
    IN  IF s4.error # "none" THEN s4 ELSE markMessagesProcessed(s4)

\* as handleAssistantText, with an empty reply left alone
handleAssistantText_SkipEmpty(st, rp, promptNumber, discoveryTokens) ==
    IF ~rp.empty THEN processSDKResponse(st, rp, promptNumber, discoveryTokens)
    ELSE st

\* lines 117-132: a reply with text is processed, an empty one only marks
handleAssistantText(st, rp, promptNumber, discoveryTokens) ==
    IF ~rp.empty THEN processSDKResponse(st, rp, promptNumber, discoveryTokens)
    ELSE markMessagesProcessed(st)

\* ------------------------------------------------------- message generator
\* as firstFrameKind, with the two prompts exchanged
firstFrameKind_Swapped(lastPromptNumber) ==
    IF lastPromptNumber = 1 THEN "Continuation" ELSE "Init"

\* lines 198-200: the first frame
firstFrameKind(lastPromptNumber) ==
    IF lastPromptNumber = 1 THEN "Init" ELSE "Continuation"

\* as frameKindOf, with the two prompts exchanged
frameKindOf_Swapped(m) == IF m.type = "observation" THEN "Summarize" ELSE "Observation"

\* lines 209-250: the frame a message is translated into
frameKindOf(m) == IF m.type = "observation" THEN "Observation" ELSE "Summarize"

\* lines 210-213
promptNumberAfter(lastPromptNumber, m) ==
    IF m.type = "observation" /\ m.prompt_number # Undef THEN m.prompt_number
    ELSE lastPromptNumber

\* ------------------------------------------------------- end of startSession
\* as endOfSession, with the session marked completed in the finally block
endOfSession_CompleteAlways(cause) ==
    [cause |-> cause,
     threw |-> cause # "clean",
     log   |-> IF cause = "clean" THEN <<"markSessionCompleted", "deleteSession">>
               ELSE IF cause = "AbortError"
                    THEN <<"warn", "throw", "markSessionCompleted", "deleteSession">>
               ELSE <<"failure", "throw", "markSessionCompleted", "deleteSession">>]

\* as endOfSession, with the deletion requested after the loop instead of in
\* the finally block
endOfSession_DeleteOnCleanOnly(cause) ==
    [cause |-> cause,
     threw |-> cause # "clean",
     log   |-> IF cause = "clean" THEN <<"markSessionCompleted", "deleteSession">>
               ELSE IF cause = "AbortError" THEN <<"warn", "throw">>
               ELSE <<"failure", "throw">>]

\* lines 141-160: what startSession does once its loop is over; cause is
\* "clean" (the reply stream ended), "AbortError" or the name of another error
endOfSession(cause) ==
    [cause |-> cause,
     threw |-> cause # "clean",
     log   |-> IF cause = "clean" THEN <<"markSessionCompleted", "deleteSession">>
               ELSE IF cause = "AbortError" THEN <<"warn", "throw", "deleteSession">>
               ELSE <<"failure", "throw", "deleteSession">>]

\* ------------------------------------------------------- session registry
\* initializeSession: the ActiveSession a session starts with; a session that
\* is resurrected keeps its prior lastPromptNumber
newSession(lastPromptNumber) ==
    [active |-> TRUE, lastPromptNumber |-> lastPromptNumber,
     cumulativeInputTokens |-> 0, cumulativeOutputTokens |-> 0,
     pendingProcessingIds |-> {}, aborted |-> FALSE]

\* deleteSession: the session leaves the registry
deletedSession(s) ==
    [s EXCEPT !.active = FALSE, !.pendingProcessingIds = {},
              !.cumulativeInputTokens = 0, !.cumulativeOutputTokens = 0]

\* as canStartAgent, without the test
canStartAgent_Always(n) == TRUE

\* the caller starts an agent only for a session whose generator is not running
canStartAgent(n) == n = 0

NoOutcome == [state |-> "none", cause |-> "none", threw |-> FALSE, pendingIds |-> {},
              startPrompt |-> 1]
NoSnap == [valid |-> FALSE, run |-> 0, store |-> <<>>, rest |-> <<>>, maxId |-> 0]
NoReply == [handled |-> FALSE, empty |-> FALSE, nObs |-> 0, hasSummary |-> FALSE,
            pending |-> {}, left |-> {}, error |-> "none"]
NoQuery == [query |-> "none", project |-> NoProject, at |-> 0, hit |-> FALSE,
            data |-> totalsOf(<<>>), fresh |-> totalsOf(<<>>),
            entry |-> [present |-> FALSE, data |-> totalsOf(<<>>), timestamp |-> 0],
            kept |-> [data |-> totalsOf(<<>>), timestamp |-> 0],
            n |-> 0]

\* Date.now() when the worker is constructed
StartTime == 5000

\* ------------------------------------------------------ time series
\* date(datetime(created_at_epoch / 1000, 'unixepoch')): the day of an instant
dateOf(epoch) == epoch \div Day

\* lines 486-498: the rows of the series with their running totals
RECURSIVE cumulate(_, _, _)
cumulate(rows, cumulativeRead, cumulativeDiscovery) ==
    IF rows = <<>> THEN <<>>
    ELSE LET row == Head(rows)
             read == cumulativeRead + OrZero(row.read_tokens)
             discovery == cumulativeDiscovery + OrZero(row.discovery_tokens)
         IN  <<[date |-> row.date, observations |-> row.observations,
                readTokens |-> OrZero(row.read_tokens),
                discoveryTokens |-> OrZero(row.discovery_tokens),
                cumulativeRead |-> read, cumulativeDiscovery |-> discovery]>>
             \o cumulate(Tail(rows), read, discovery)

\* age <= days * Day, computed without forming days * Day, which for 30 days
\* of milliseconds is beyond the 32-bit integers of TLC
withinDays(age, days) == age \div Day < days \/ (age \div Day = days /\ age % Day = 0)

\* lines 429-503, for the granularity 'day': the observations not older than
\* sinceEpoch, which is 30 days ago when parseSince gives null, grouped by day
TokenTimeSeries(rows, project, since, now) ==
    LET sinceEpoch == parseSince(since, now)
        selected == SelectSeq(rows, LAMBDA r :
                        /\ IF Truthy(sinceEpoch) THEN r.created_at_epoch >= sinceEpoch
                           ELSE withinDays(now - r.created_at_epoch, 30)
                        /\ (project # NoProject => r.project = project))
        dates == SortedSeq({dateOf(selected[i].created_at_epoch) : i \in DOMAIN selected})
        group(d) == SelectSeq(selected, LAMBDA r : dateOf(r.created_at_epoch) = d)
    IN  [series |-> cumulate([i \in DOMAIN dates |->
                                 [date |-> dates[i],
                                  observations |-> Len(group(dates[i])),
                                  discovery_tokens |-> sqlSumDiscovery(group(dates[i])),
                                  read_tokens |-> sqlSumReadTokens(group(dates[i]))]],
                             0, 0),
         granularity |-> "day"]

\* no method of the metrics service or of the tracker has been called directly
NoCalc == [op |-> "none"]

\* PerformanceTracker lines 55-63: both buffers empty, lastSampleTime = 0
NewTracker == [queueHistory |-> <<>>, processingTimes |-> <<>>, lastSampleTime |-> 0]

\* ----------------------------------------------------------------- Init
\* the session orchestrator and the worker service after construction; the
\* clock, the table and the tracker are set by the Init of each specification
InitWorker ==
    /\ queue = <<>>
    /\ session = [newSession(1) EXCEPT !.active = FALSE]
    /\ loops = 0
    /\ runs = 0
    /\ gen = "none"
    /\ yielded = {}
    /\ frames = <<>>
    /\ frameSeq = 0
    /\ answered = 0
    /\ store = <<>>
    /\ replyLog = <<>>
    /\ runLog = <<>>
    /\ outcome = NoOutcome
    /\ completed = 0
    /\ rejected = {}
    /\ replied = {}
    /\ sent = {}
    /\ cancelSnap = NoSnap
    /\ lastReply = NoReply
    /\ worker = [lastTokenBroadcast |-> 0, tokenMetricsService |-> FALSE,
                 mcpReady |-> FALSE, initializationCompleteFlag |-> FALSE,
                 init |-> "none", initSteps |-> {}, mcpStart |-> 0]
    /\ metrics = [cache |-> <<>>]
    /\ events = <<>>
    /\ calls = <<>>
    /\ lastQuery = NoQuery

Init ==
    /\ InitWorker
    /\ clock = StartTime
    /\ table = <<>>
    /\ tracker = NewTracker
    /\ calc = NoCalc

\* --------------------------------------------------------------- actions
\* the messages that are queued: observations with or without a prompt
\* number, and summarize requests (whose prompt number is not read)
MsgShapes ==
    {[type |-> "observation", prompt_number |-> pn] : pn \in {Undef} \cup (1..MaxPrompt)}
    \cup {[type |-> "summarize", prompt_number |-> Undef]}

\* an inbound event is queued for the session
EnqueueOf(shapes, max) ==
    /\ NextId(queue) <= max
    /\ \E m \in shapes : queue' = enqueue(queue, m.type, m.prompt_number)
    /\ UNCHANGED <<session, loops, runs, gen, yielded, frames, frameSeq, answered,
                   store, replyLog, runLog, outcome, completed, rejected, replied, sent,
                   cancelSnap,
                   lastReply, liveVars, calcVars>>

\* the effects of the end of startSession (lines 141-160) on the state
EndWith(cause, pendingIds) ==
    LET e == endOfSession(cause)
    IN  /\ outcome' = [outcome EXCEPT !.state = "ended", !.cause = e.cause,
                                       !.threw = e.threw, !.pendingIds = pendingIds]
        /\ runLog' = e.log
        /\ completed' = completed
                        + Cardinality({i \in DOMAIN e.log : e.log[i] = "markSessionCompleted"})

\* initializeBackground (part_001 lines 425-491) runs to its end without a
\* failure: it opens the store, creates the token metrics service and its
\* routes and connects to the MCP server
InitializeBackground ==
    /\ ~worker.tokenMetricsService
    /\ worker' = mcpConnected(routesRegistered(databaseInitialized(worker), clock))
    /\ UNCHANGED <<queue, session, loops, runs, gen, yielded, frames, frameSeq,
                   answered, store, replyLog, runLog, outcome, completed, rejected,
                   replied, sent, cancelSnap, lastReply, clock, metrics, events,
                   calls, lastQuery, calcVars>>

\* startSession is called for the session (lines 41-76) and reaches its loop
StartAgent ==
    /\ worker.tokenMetricsService
    /\ canStartAgent(loops)
    /\ runs < MaxRuns
    /\ runs' = runs + 1
    /\ loops' = loops + 1
    /\ session' = newSession(session.lastPromptNumber)
    /\ gen' = "init"
    /\ yielded' = {}
    /\ frames' = <<>>
    /\ answered' = 0
    /\ replyLog' = <<>>
    /\ rejected' = {}
    /\ runLog' = <<>>
    /\ outcome' = [NoOutcome EXCEPT !.state = "running",
                                    !.startPrompt = session.lastPromptNumber]
    /\ UNCHANGED <<queue, frameSeq, store, completed, replied, sent, cancelSnap>>
    /\ lastReply' = NoReply
    /\ UNCHANGED <<liveVars, calcVars>>

\* createMessageGenerator is asked for its first frame (lines 188-205)
PullFirstFrame ==
    /\ loops >= 1
    /\ gen = "init"
    /\ frames' = Append(frames, [kind |-> firstFrameKind(session.lastPromptNumber),
                                 msg |-> 0, seq |-> frameSeq + 1])
    /\ frameSeq' = frameSeq + 1
    /\ gen' = "iter"
    /\ UNCHANGED <<queue, session, loops, runs, yielded, answered, store, replyLog,
                   runLog, outcome, completed, rejected, replied, sent, cancelSnap,
                   lastReply, liveVars, calcVars>>

\* the message iterator yields the next pending message and the generator
\* translates it into a frame (lines 207-251)
PullMessage ==
    /\ loops >= 1
    /\ gen = "iter"
    /\ ~session.aborted
    /\ NextPending(queue, yielded) # 0
    /\ LET m == queue[NextPending(queue, yielded)]
       IN  /\ yielded' = yielded \cup {m.id}
           /\ sent' = sent \cup {m.id}
           /\ session' = [session EXCEPT
                            !.pendingProcessingIds = @ \cup {m.id},
                            !.lastPromptNumber = promptNumberAfter(@, m)]
           /\ frames' = Append(frames, [kind |-> frameKindOf(m), msg |-> m.id,
                                        seq |-> frameSeq + 1])
    /\ frameSeq' = frameSeq + 1
    /\ UNCHANGED <<queue, loops, runs, gen, answered, store, replyLog, runLog,
                   outcome, completed, rejected, replied, cancelSnap,
                   lastReply, liveVars, calcVars>>

\* the subscription is closed: the iterator ends and the generator returns
GeneratorReturns ==
    /\ loops >= 1
    /\ gen = "iter"
    /\ session.aborted
    /\ gen' = "done"
    /\ UNCHANGED <<queue, session, loops, runs, yielded, frames, frameSeq, answered,
                   store, replyLog, runLog, outcome, completed, rejected, replied, sent,
                   cancelSnap,
                   lastReply, liveVars, calcVars>>

\* the cancellation handle of the session fires
Abort ==
    /\ loops >= 1
    /\ ~session.aborted
    /\ session' = [session EXCEPT !.aborted = TRUE]
    /\ cancelSnap' = [valid |-> gen = "iter" /\ answered = Len(frames),
                      run |-> runs, store |-> store,
                      rest |-> Ids(PendingRows(queue)),
                      maxId |-> NextId(queue) - 1]
    /\ UNCHANGED <<queue, loops, runs, gen, yielded, frames, frameSeq, answered,
                   store, replyLog, runLog, outcome, completed, rejected, replied, sent,
                   lastReply, liveVars, calcVars>>

\* the replies the analyzer gives, as the parser reads them
Replies ==
    {[empty |-> TRUE, nObs |-> 0, hasSummary |-> FALSE]}
    \cup {[empty |-> FALSE, nObs |-> n, hasSummary |-> b] : n \in 0..MaxObs, b \in BOOLEAN}

\* the loop of startSession receives the assistant reply to the oldest
\* unanswered frame and handles it (lines 79-133); a store write that throws
\* ends startSession through its catch and finally blocks
HandleReplyUpTo(replies, usages, failures, rejections, maxRows) ==
    /\ loops >= 1
    /\ answered < Len(frames)
    /\ \E r \in replies, usage \in usages, failAt \in failures,
          rej \in rejections :
         LET n     == r.nObs + (IF r.hasSummary THEN 1 ELSE 0)
             f     == frames[answered + 1]
             after == trackUsage(session, usage)
             rp    == [empty |-> r.empty, nObs |-> r.nObs, hasSummary |-> r.hasSummary,
                       failAt |-> failAt, rej |-> rej, frame |-> f.seq,
                       expect |-> UsageTotal(usage)]
             st0   == [store |-> store, queue |-> queue,
                       pending |-> session.pendingProcessingIds, log |-> <<>>,
                       error |-> "none", syncRej |-> {},
                       now |-> clock, worker |-> worker, metrics |-> metrics,
                       events |-> events, calls |-> calls]
         IN  /\ failAt <= n
             /\ rej \subseteq 1..(IF failAt = 0 THEN n ELSE failAt - 1)
             /\ Len(store) + n <= maxRows
             /\ \E st \in {handleAssistantText(st0, rp, after.lastPromptNumber,
                                                discoveryTokensOf(session, after))} :
                  /\ store' = st.store
                  /\ worker' = st.worker
                  /\ metrics' = st.metrics
                  /\ events' = st.events
                  /\ calls' = st.calls
                  /\ lastReply' = [handled |-> TRUE, empty |-> r.empty, nObs |-> r.nObs,
                                   hasSummary |-> r.hasSummary,
                                   pending |-> session.pendingProcessingIds,
                                   left |-> st.pending, error |-> st.error]
                  /\ queue' = st.queue
                  /\ replyLog' = st.log
                  /\ rejected' = st.syncRej
                  /\ IF st.error # "none"
                     THEN /\ EndWith(st.error, session.pendingProcessingIds)
                          /\ session' = deletedSession(after)
                          /\ loops' = loops - 1
                          /\ gen' = "none"
                          /\ UNCHANGED <<answered, replied>>
                     ELSE /\ session' = [after EXCEPT !.pendingProcessingIds = st.pending]
                          /\ answered' = answered + 1
                          /\ replied' = replied \cup (IF f.msg # 0 THEN {f.msg} ELSE {})
                          /\ UNCHANGED <<loops, gen, runLog, outcome, completed>>
    /\ UNCHANGED <<runs, yielded, frames, frameSeq, sent, cancelSnap, clock, lastQuery,
                   calcVars>>

HandleReplyOf(replies, usages, failures, rejections) ==
    HandleReplyUpTo(replies, usages, failures, rejections, MaxRows)

\* the store writes that may throw (0: none) and the vector syncs that may
\* reject (at most one per reply), by position among the records of a reply
Failures == 0..(MaxObs + 1)
Rejections == {{}} \cup {{i} : i \in 1..(MaxObs + 1)}

\* replies that the store and the vector index take without a fault and that
\* hold at most one observation
PlainReplies == {r \in Replies : r.nObs <= 1 /\ ~r.hasSummary}

\* Spec: observation messages without a prompt number, every reply, faults
Enqueue ==
    EnqueueOf({[type |-> "observation", prompt_number |-> Undef]}, MaxMsgs)

HandleReply == HandleReplyOf(Replies, PlainUsages, Failures, Rejections)

\* SpecCancel: as Spec with a longer queue, plain replies
EnqueueMore ==
    EnqueueOf({[type |-> "observation", prompt_number |-> Undef]}, MaxQueued)

\* SpecFrames: every message, plain replies
EnqueueAny == EnqueueOf(MsgShapes, MaxMsgs)

HandlePlainReply == HandleReplyOf(PlainReplies, PlainUsages, {0}, {{}})

\* SpecTokens: every usage record
EnqueueOne ==
    EnqueueOf({[type |-> "observation", prompt_number |-> Undef]}, MaxTokMsgs)

HandleReplyWithUsage == HandleReplyOf(Replies, Usages, {0}, {{}})

\* the reply stream ends after the analyzer has answered every frame
StreamEnd ==
    /\ loops >= 1
    /\ gen # "init"
    /\ answered = Len(frames)
    /\ EndWith("clean", session.pendingProcessingIds)
    /\ session' = deletedSession(session)
    /\ loops' = loops - 1
    /\ gen' = "none"
    /\ UNCHANGED <<queue, runs, yielded, frames, frameSeq, answered, store, replyLog,
                   rejected, replied, sent, cancelSnap,
                   lastReply, liveVars, calcVars>>

\* the reply stream ends with an AbortError once the handle has fired
StreamAbort ==
    /\ loops >= 1
    /\ session.aborted
    /\ EndWith("AbortError", session.pendingProcessingIds)
    /\ session' = deletedSession(session)
    /\ loops' = loops - 1
    /\ gen' = "none"
    /\ UNCHANGED <<queue, runs, yielded, frames, frameSeq, answered, store, replyLog,
                   rejected, replied, sent, cancelSnap,
                   lastReply, liveVars, calcVars>>

\* the analyzer subprocess fails: the reply stream raises another error
StreamError ==
    /\ loops >= 1
    /\ EndWith("StreamError", session.pendingProcessingIds)
    /\ session' = deletedSession(session)
    /\ loops' = loops - 1
    /\ gen' = "none"
    /\ UNCHANGED <<queue, runs, yielded, frames, frameSeq, answered, store, replyLog,
                   rejected, replied, sent, cancelSnap,
                   lastReply, liveVars, calcVars>>

\* startSession is called and findClaudeExecutable throws (lines 43-47)
StartFails ==
    /\ worker.tokenMetricsService
    /\ canStartAgent(loops)
    /\ runs < MaxRuns
    /\ runs' = runs + 1
    /\ EndWith("ExecutableError", {})
    /\ session' = deletedSession(newSession(session.lastPromptNumber))
    /\ gen' = "none"
    /\ yielded' = {}
    /\ frames' = <<>>
    /\ answered' = 0
    /\ replyLog' = <<>>
    /\ rejected' = {}
    /\ UNCHANGED <<queue, loops, frameSeq, store, replied, sent, cancelSnap>>
    /\ lastReply' = NoReply
    /\ UNCHANGED <<liveVars, calcVars>>

Next ==
    \/ InitializeBackground
    \/ Enqueue
    \/ StartAgent
    \/ StartFails
    \/ PullFirstFrame
    \/ PullMessage
    \/ GeneratorReturns
    \/ Abort
    \/ HandleReply
    \/ StreamEnd
    \/ StreamAbort
    \/ StreamError

Spec == Init /\ [][Next]_vars

NextCancel ==
    \/ InitializeBackground
    \/ EnqueueMore
    \/ StartAgent
    \/ PullFirstFrame
    \/ PullMessage
    \/ GeneratorReturns
    \/ Abort
    \/ HandlePlainReply
    \/ StreamEnd
    \/ StreamAbort

SpecCancel == Init /\ [][NextCancel]_vars

NextFrames ==
    \/ InitializeBackground
    \/ EnqueueAny
    \/ StartAgent
    \/ PullFirstFrame
    \/ PullMessage
    \/ GeneratorReturns
    \/ Abort
    \/ HandlePlainReply
    \/ StreamEnd
    \/ StreamAbort
    \/ StreamError

SpecFrames == Init /\ [][NextFrames]_vars

NextTokens ==
    \/ InitializeBackground
    \/ EnqueueOne
    \/ StartAgent
    \/ PullFirstFrame
    \/ PullMessage
    \/ HandleReplyWithUsage
    \/ StreamEnd

SpecTokens == Init /\ [][NextTokens]_vars

\* ------------------------------------------------ time and the token routes
\* the instants at which Date.now() is read, in milliseconds after StartTime:
\* around the throttle of the live push, and around the two TTLs of the cache
LiveTimes == {300, 999, 1000, 1299}
CacheTimes == {CACHE_TTL_MS - 1, CACHE_TTL_MS,
               PROJECTION_CACHE_TTL_MS - 1, PROJECTION_CACHE_TTL_MS}

\* time passes
TickTo(times) ==
    /\ \E t \in times : StartTime + t > clock /\ clock' = StartTime + t
    /\ UNCHANGED <<queue, session, loops, runs, gen, yielded, frames, frameSeq,
                   answered, store, replyLog, runLog, outcome, completed, rejected,
                   replied, sent, cancelSnap, lastReply, worker, metrics, events,
                   calls, lastQuery, calcVars>>

\* the six token queries of the routes, by the name of their cache key
QueryKinds == {"summary", "by-project", "by-type", "time-series", "compression",
               "projection"}

\* the TTL of the cached answer of a query
ttlOf(q) == IF q = "projection" THEN PROJECTION_CACHE_TTL_MS ELSE CACHE_TTL_MS

\* the key under which the answer of a query is cached
keyOf(q, project) ==
    [query |-> q, project |-> IF q = "by-project" THEN "10" ELSE projectOrAll(project)]

\* TokenRoutes lines 44-124: the handler of a query calls the metrics service
handleGet(q, m, rows, now, project) ==
    CASE q = "summary"     -> getSummary(m, rows, now, project)
      [] q = "by-project"  -> getByProject(m, rows, now, project)
      [] q = "by-type"     -> getByType(m, rows, now, project)
      [] q = "time-series" -> getTimeSeries(m, rows, now, project)
      [] q = "compression" -> getCompressionMetrics(m, rows, now, project)
      [] OTHER             -> getEndlessModeProjection(m, rows, now, project)

\* the observations a query reads
rowsRead(q, rows, project) ==
    CASE q = "by-project"  -> observationsOf(rows, NoProject)
      [] q = "compression" -> SelectSeq(observationsOf(rows, project),
                                        LAMBDA r : r.discovery_tokens > 0)
      [] OTHER             -> observationsOf(rows, project)

\* a client sends one of the queries to the token routes; lastQuery keeps the
\* answer, the entry the cache held for the key before the query (entry) and
\* after it (kept), and the figures of the store at that moment (fresh)
QueryOf(queries) ==
    /\ worker.tokenMetricsService
    /\ lastQuery.n < MaxQueries
    /\ \E qp \in queries :
         LET q   == qp[1]
             key == keyOf(q, qp[2])
             r   == handleGet(q, metrics, store, clock, qp[2])
         IN  /\ metrics' = r.metrics
             /\ lastQuery' =
                  [query |-> q, project |-> qp[2], at |-> clock, hit |-> r.hit,
                   data |-> r.data,
                   fresh |-> totalsOf(rowsRead(q, store, qp[2])),
                   entry |-> IF key \in DOMAIN metrics.cache
                             THEN [present |-> TRUE, data |-> metrics.cache[key].data,
                                   timestamp |-> metrics.cache[key].timestamp]
                             ELSE [present |-> FALSE, data |-> totalsOf(<<>>),
                                   timestamp |-> 0],
                   kept |-> r.metrics.cache[key],
                   n |-> lastQuery.n + 1]
    /\ UNCHANGED <<queue, session, loops, runs, gen, yielded, frames, frameSeq,
                   answered, store, replyLog, runLog, outcome, completed, rejected,
                   replied, sent, cancelSnap, lastReply, clock, worker, events, calls,
                   calcVars>>

\* SpecLive: one observation per reply, the clock around the throttle
EnqueueLive ==
    EnqueueOf({[type |-> "observation", prompt_number |-> Undef]}, MaxLiveMsgs)

LiveReplies == {r \in Replies : r.nObs = 1 /\ ~r.hasSummary}

HandleLiveReply == HandleReplyUpTo(LiveReplies, PlainUsages, {0}, {{}}, MaxLiveRows)

Tick == TickTo(LiveTimes)

NextLive ==
    \/ InitializeBackground
    \/ EnqueueLive
    \/ StartAgent
    \/ PullFirstFrame
    \/ PullMessage
    \/ HandleLiveReply
    \/ Tick

SpecLive == Init /\ [][NextLive]_vars

\* SpecLiveFair: a short session whose steps are taken when they can be: the
\* worker initialises, the session is started, the generator is pulled, time
\* passes, and the analyzer answers every frame it is sent (AllAnswered holds
\* again and again); no message need ever be queued
AllAnswered == loops = 0 \/ answered = Len(frames)

NextLiveFair ==
    \/ InitializeBackground
    \/ EnqueueOne
    \/ StartAgent
    \/ PullFirstFrame
    \/ PullMessage
    \/ HandleLiveReply
    \/ Tick

SpecLiveFair ==
    /\ Init
    /\ [][NextLiveFair]_vars
    /\ WF_vars(InitializeBackground)
    /\ WF_vars(StartAgent)
    /\ WF_vars(PullFirstFrame)
    /\ WF_vars(PullMessage)
    /\ WF_vars(Tick)
    /\ []<>AllAnswered

\* SpecCache: the queries of the routes, the clock around the TTLs
Queries ==
    {<<q, NoProject>> : q \in QueryKinds}
    \cup {<<"summary", SessionProject>>, <<"projection", "nonesuch">>}

Query == QueryOf(Queries)

TickCache == TickTo(CacheTimes)

NextCache ==
    \/ InitializeBackground
    \/ EnqueueOne
    \/ StartAgent
    \/ PullFirstFrame
    \/ PullMessage
    \/ HandlePlainReply
    \/ Query
    \/ TickCache

SpecCache == Init /\ [][NextCache]_vars

\* SpecKeys: the queries that take a project are asked without one, for the
\* project of the session and for a project that is named "all"
KeyQueries ==
    {<<q, p>> : q \in QueryKinds \ {"by-project"},
                p \in {NoProject, SessionProject, "all"}}

QueryKeys == QueryOf(KeyQueries)

NextKeys ==
    \/ InitializeBackground
    \/ EnqueueOne
    \/ StartAgent
    \/ PullFirstFrame
    \/ PullMessage
    \/ HandlePlainReply
    \/ QueryKeys

SpecKeys == Init /\ [][NextKeys]_vars

\* SpecReady: the background initialization of the worker step by step, with
\* its failures, the clock around the timeout of the MCP connection, and the
\* readiness endpoint
ReadyTimes == {MCP_INIT_TIMEOUT_MS - 1, MCP_INIT_TIMEOUT_MS, 2 * MCP_INIT_TIMEOUT_MS}

InitStep(next) ==
    /\ worker' = next
    /\ UNCHANGED <<agentVars, clock, metrics, events, calls, lastQuery, calcVars>>

\* start() (lines 405-420) calls initializeBackground, which cleans up, loads
\* the mode and awaits the database (lines 425-441)
StartInitialization ==
    /\ worker.init = "none"
    /\ InitStep([worker EXCEPT !.init = "start"])

\* the database is open; the routes are registered and the MCP connection is
\* started and awaited (lines 441-478)
DatabaseInitialized ==
    /\ worker.init = "start"
    /\ InitStep(routesRegistered(databaseInitialized(worker), clock))

\* a step before the MCP connection throws: the clean-up, the mode, the
\* database, or the registration of the routes after the database is open
InitializationThrows ==
    /\ worker.init = "start"
    /\ \/ InitStep(initializeFailed(worker))
       \/ InitStep(initializeFailed(databaseInitialized(worker)))

\* the MCP connection completes before its timer has fired (line 478)
McpConnected ==
    /\ worker.init = "mcp"
    /\ InitStep(mcpConnected(worker))

\* the MCP connection is refused
McpRejected ==
    /\ worker.init = "mcp"
    /\ InitStep(initializeFailed(worker))

\* the timer of the MCP connection fires first (lines 472-478)
McpTimeout ==
    /\ worker.init = "mcp"
    /\ clock - worker.mcpStart >= MCP_INIT_TIMEOUT_MS
    /\ InitStep(initializeFailed(worker))

TickReady == TickTo(ReadyTimes)

\* GET /api/readiness (lines 155-167); calc keeps the answer and the worker
\* that gave it
GetReadiness ==
    /\ calc' = [op |-> "readiness", status |-> readiness(worker), at |-> clock,
                worker |-> worker]
    /\ UNCHANGED <<agentVars, liveVars, table, tracker>>

NextReady ==
    \/ StartInitialization
    \/ DatabaseInitialized
    \/ InitializationThrows
    \/ McpConnected
    \/ McpRejected
    \/ McpTimeout
    \/ TickReady
    \/ GetReadiness

SpecReady == Init /\ [][NextReady]_vars

\* SpecMetrics: observations with their text columns are inserted and one of
\* the metrics methods is called on the table
OtherProject == "other-project"

BaseRow ==
    [type |-> "discovery", title |-> Undef, subtitle |-> Undef, narrative |-> Undef,
     facts |-> JsonNull, concepts |-> JsonNull, files_read |-> JsonNull,
     files_modified |-> JsonNull, discovery_tokens |-> 0,
     project |-> SessionProject, created_at_epoch |-> 0]

\* the observations that are inserted: titles of 0 to 2 characters, facts
\* NULL, an array or a plain string, discovery tokens NULL, 0 or 40, two
\* projects; and rows whose other columns are filled
RowShapes ==
    {[BaseRow EXCEPT !.title = t, !.facts = f, !.discovery_tokens = d, !.project = p] :
        t \in {Undef, 1, 2}, f \in {JsonNull, JsonArray(<<2>>), JsonText(3)},
        d \in {Undef, 0, 40}, p \in {SessionProject, OtherProject}}
    \cup {[BaseRow EXCEPT !.subtitle = 3, !.narrative = 6, !.discovery_tokens = 40],
          [BaseRow EXCEPT !.concepts = JsonArray(<<4>>), !.discovery_tokens = 40],
          [BaseRow EXCEPT !.title = 1, !.facts = JsonArray(<<1, 2>>),
                          !.files_read = JsonArray(<<1, 1>>),
                          !.files_modified = JsonText(5)]}

\* an observation is inserted into the table at Date.now(); the next insert
\* is at least a millisecond later
InsertOf(shapes, max) ==
    /\ Len(table) < max
    /\ \E r \in shapes :
         table' = Append(table, [r EXCEPT !.created_at_epoch = clock])
    /\ clock' = clock + 1
    /\ UNCHANGED <<agentVars, worker, metrics, events, calls, lastQuery, tracker, calc>>

InsertObservation == InsertOf(RowShapes, MaxTableRows)

\* a method of the metrics service that caches its answer is called: the
\* cached answer when there is one (lines 114-120), else the computed one,
\* stored under the key (lines 122-127); calc keeps the call
CachedCall(op, key, ttl, project, arg, computed) ==
    LET c == getCached(metrics.cache, key, ttl, clock)
    IN  /\ worker.tokenMetricsService
        /\ calc.op = "none"
        /\ metrics' = IF c.hit THEN metrics
                      ELSE [metrics EXCEPT !.cache = setCache(@, key, computed, clock)]
        /\ calc' = [op |-> op, project |-> project, arg |-> arg, rows |-> table,
                    now |-> clock, result |-> IF c.hit THEN c.data ELSE computed]
        /\ UNCHANGED <<agentVars, clock, worker, events, calls, lastQuery, table, tracker>>

\* getSummary(project) is called
GetSummary ==
    \E p \in {NoProject, SessionProject, OtherProject} :
        CachedCall("getSummary", [query |-> "summary", project |-> projectOrAll(p)],
                   CACHE_TTL_MS, p, Undef, TokenSummary(table, p, Undef))

\* getByProject() is called, with its default limit
GetByProject ==
    CachedCall("getByProject", [query |-> "by-project", project |-> "10"],
               CACHE_TTL_MS, NoProject, Undef, byProjectRows(table, 10, Undef))

\* getEndlessModeProjection(project, observationCount) is called
GetProjection ==
    \E p \in {NoProject, SessionProject}, n \in {1, DefaultObservationCount} :
        CachedCall("getEndlessModeProjection",
                   [query |-> "projection", project |-> projectOrAll(p)],
                   PROJECTION_CACHE_TTL_MS, p, n, EndlessModeProjection(table, p, n))

\* getQuickSummary() is called: no cache is read or written
GetQuickSummary ==
    /\ worker.tokenMetricsService
    /\ calc.op = "none"
    /\ calc' = [op |-> "getQuickSummary", project |-> NoProject, arg |-> Undef,
                rows |-> table, now |-> clock, result |-> getQuickSummary(table)]
    /\ UNCHANGED <<agentVars, liveVars, table, tracker>>

NextMetrics ==
    \/ InitializeBackground
    \/ InsertObservation
    \/ GetSummary
    \/ GetByProject
    \/ GetProjection
    \/ GetQuickSummary

SpecMetrics == Init /\ [][NextMetrics]_vars

\* SpecTracker: the performance tracker after a number of earlier calls, then
\* a few more calls with the clock around the sample interval
\* the time of the i-th of the earlier calls: they are one sample interval apart
callTime(i) == StartTime + (i - 1) * SAMPLE_INTERVAL_MS

\* the tracker after k calls of recordObservationProcessed, the i-th at
\* callTime(i) with a duration of i ms: every call has stored its record and
\* its sample, and each buffer holds the newest entries up to its capacity
afterCalls(k) ==
    LET kept(cap) == IF k < cap THEN k ELSE cap
        call(i, cap) == k - kept(cap) + i
    IN  [queueHistory    |-> [i \in 1..kept(MAX_QUEUE_HISTORY) |->
                                 [timestamp |-> callTime(call(i, MAX_QUEUE_HISTORY)),
                                  queueDepth |-> 0, activeSessions |-> 1]],
         processingTimes |-> [i \in 1..kept(MAX_PROCESSING_TIMES) |->
                                 [timestamp |-> callTime(call(i, MAX_PROCESSING_TIMES)),
                                  duration |-> call(i, MAX_PROCESSING_TIMES),
                                  discoveryTokens |-> 0, observationCount |-> 1]],
         lastSampleTime  |-> IF k = 0 THEN 0 ELSE callTime(k)]

\* the numbers of earlier calls: none, one short of the smaller buffer, one
\* short of the larger one
FillCalls == {0, MAX_PROCESSING_TIMES - 1, MAX_QUEUE_HISTORY - 1}

InitTracker ==
    /\ InitWorker
    /\ table = <<>>
    /\ calc = NoCalc
    /\ \E k \in FillCalls :
         /\ tracker = afterCalls(k)
         /\ clock = IF k = 0 THEN StartTime ELSE callTime(k)

\* the direct calls made so far
callsMade == IF calc.op = "none" THEN 0 ELSE calc.n

\* the orchestrator reports a handled reply (SDKAgent line 345): the worker
\* records its processing time and takes a queue sample; calc keeps the
\* tracker before and after the call; late is the time that passes between
\* the two readings of the clock
RecordOf(durations, depths, delays, max) ==
    /\ callsMade < max
    /\ \E d \in durations, q \in depths, late \in delays :
         LET after == recordObservationProcessed(tracker, clock, clock + late,
                                                 d, 0, 1, q, 1)
         IN  /\ tracker' = after
             /\ clock' = clock + late
             /\ calc' = [op |-> "recordObservationProcessed", now |-> clock,
                         before |-> tracker, after |-> after, n |-> callsMade + 1]
    /\ UNCHANGED <<agentVars, worker, metrics, events, calls, lastQuery, table>>

RecordObservationProcessed == RecordOf({7}, {0, 2}, {0}, MaxTrackerCalls)

\* time passes, up to a millisecond before the next sample may be taken or up
\* to the moment it may
TickTracker ==
    /\ \E t \in {SAMPLE_INTERVAL_MS - 1, SAMPLE_INTERVAL_MS} :
         /\ tracker.lastSampleTime + t > clock
         /\ clock' = tracker.lastSampleTime + t
    /\ UNCHANGED <<agentVars, worker, metrics, events, calls, lastQuery, calcVars>>

NextTracker ==
    \/ RecordObservationProcessed
    \/ TickTracker

SpecTracker == InitTracker /\ [][NextTracker]_vars

\* SpecTimes: replies with durations of 10 to 50 ms are recorded and the
\* processing times are asked for
\* since || dflt of a route
sinceOr(since, dflt) == IF since.kind = "absent" THEN dflt ELSE since

RecordTimed == RecordOf({10, 20, 30, 40, 50}, {0}, {0}, MaxTimed)

\* GET /api/performance/times (TokenRoutes lines 148-155); calc keeps the
\* tracker the answer was computed from
GetProcessingTimesOf(sinces) ==
    /\ worker.tokenMetricsService
    /\ calc.op # "getProcessingTimes"
    /\ \E since \in sinces :
         calc' = [op |-> "getProcessingTimes", since |-> since, now |-> clock,
                  tracker |-> tracker, n |-> callsMade,
                  result |-> getProcessingTimes(tracker,
                                                sinceOr(since, RelativeSince(24, "h")),
                                                DefaultLimit, clock)]
    /\ UNCHANGED <<agentVars, liveVars, table, tracker>>

GetProcessingTimes == GetProcessingTimesOf({NoSince})

NextTimes ==
    \/ InitializeBackground
    \/ RecordTimed
    \/ GetProcessingTimes

SpecTimes == Init /\ [][NextTimes]_vars

\* SpecLate: replies are recorded with the clock moving between the record and
\* the sample, time passes, and the processing times are asked for since an
\* instant, since an hour after it, or with no since
LateSinces == {NoSince, DateSince(StartTime + 1), DateSince(StartTime + Hour)}

RecordLate == RecordOf({7}, {0, 2}, {0, 1}, MaxLateCalls)

TickLate == TickTo({SAMPLE_INTERVAL_MS, Hour})

GetProcessingTimesLate == GetProcessingTimesOf(LateSinces)

NextLate ==
    \/ InitializeBackground
    \/ RecordLate
    \/ TickLate
    \/ GetProcessingTimesLate

SpecLate == Init /\ [][NextLate]_vars

\* SpecSince: observations are inserted and replies recorded, time passes,
\* and the queries that take a since are asked with a since of every kind
SinceTimes == {Hour + 1, Day + 1}

\* absent, "1h", an ISO timestamp an hour after the start, and a string that
\* is neither
SinceVals == {NoSince, RelativeSince(1, "h"), DateSince(StartTime + Hour), OtherSince}

InsertSince == InsertOf({[BaseRow EXCEPT !.title = 2, !.discovery_tokens = 40]},
                        MaxSinceRows)

RecordSince == RecordOf({7}, {1}, {0}, MaxSinceCalls)

TickSince == TickTo(SinceTimes)

\* a query of the routes that takes a since is answered; calc keeps the since,
\* the table and the tracker it was asked of, and the answer
SinceCall(op, since, result) ==
    /\ worker.tokenMetricsService
    /\ calc.op \in {"none", "recordObservationProcessed"}
    /\ calc' = [op |-> op, since |-> since, now |-> clock, rows |-> table,
                tracker |-> tracker, n |-> callsMade, result |-> result]
    /\ UNCHANGED <<agentVars, clock, worker, events, calls, lastQuery, table, tracker>>

\* GET /api/tokens/summary?since= (TokenRoutes lines 44-58)
GetSummarySince ==
    \E since \in SinceVals :
        /\ SinceCall("getSummary", since,
                     TokenSummary(table, NoProject, parseSince(since, clock)))
        /\ metrics' = [metrics EXCEPT !.cache =
                         setCache(@, [query |-> "summary", project |-> "all"],
                                  TokenSummary(table, NoProject, parseSince(since, clock)),
                                  clock)]

\* GET /api/tokens/by-project?since= (TokenRoutes lines 64-71)
GetByProjectSince ==
    \E since \in SinceVals :
        /\ SinceCall("getByProject", since,
                     byProjectRows(table, 10, parseSince(since, clock)))
        /\ metrics' = [metrics EXCEPT !.cache =
                         setCache(@, [query |-> "by-project", project |-> "10"],
                                  byProjectRows(table, 10, parseSince(since, clock)),
                                  clock)]

\* GET /api/tokens/time-series?since= (TokenRoutes lines 90-98), with a since
\* (an absent since is replaced by '30d', the window an unparseable one gets)
GetTimeSeriesSince ==
    \E since \in SinceVals \ {NoSince} :
        LET result == TokenTimeSeries(table, NoProject, since, clock)
        IN  /\ SinceCall("getTimeSeries", since, result)
            /\ metrics' = [metrics EXCEPT !.cache =
                             setCache(@, [query |-> "time-series", project |-> "all"],
                                      result, clock)]

\* GET /api/performance/queue?since= (TokenRoutes lines 135-142)
GetQueueHistorySince ==
    \E since \in SinceVals :
        /\ SinceCall("getQueueHistory", since,
                     getQueueHistory(tracker, sinceOr(since, RelativeSince(1, "h")),
                                     DefaultLimit, clock))
        /\ UNCHANGED metrics

\* GET /api/performance/times?since= (TokenRoutes lines 148-155)
GetProcessingTimesSince ==
    \E since \in SinceVals :
        /\ SinceCall("getProcessingTimes", since,
                     getProcessingTimes(tracker, sinceOr(since, RelativeSince(24, "h")),
                                        DefaultLimit, clock))
        /\ UNCHANGED metrics

NextSince ==
    \/ InitializeBackground
    \/ InsertSince
    \/ RecordSince
    \/ TickSince
    \/ GetSummarySince
    \/ GetByProjectSince
    \/ GetTimeSeriesSince
    \/ GetQueueHistorySince
    \/ GetProcessingTimesSince

SpecSince == Init /\ [][NextSince]_vars

\* SpecInvalidate: the cache is filled by queries of the routes and then
\* invalidated, for no project, for the project of the session or for another
InvalidateQueries ==
    {<<q, p>> : q \in QueryKinds, p \in {NoProject, SessionProject}}

QueryAny == QueryOf(InvalidateQueries)

\* invalidateCache(project) is called; calc keeps the cache before and after
Invalidate ==
    /\ worker.tokenMetricsService
    /\ calc.op = "none"
    /\ \E p \in {NoProject, SessionProject, "nonesuch"} :
         /\ metrics' = [metrics EXCEPT !.cache = invalidateCache(@, p)]
         /\ calc' = [op |-> "invalidateCache", project |-> p,
                     before |-> metrics.cache,
                     after |-> invalidateCache(metrics.cache, p)]
    /\ UNCHANGED <<agentVars, clock, worker, events, calls, lastQuery, table, tracker>>

NextInvalidate ==
    \/ InitializeBackground
    \/ QueryAny
    \/ Invalidate

SpecInvalidate == Init /\ [][NextInvalidate]_vars

\* ================================================================ claims
Range(f) == {f[i] : i \in DOMAIN f}
ObsRows == {store[i] : i \in {j \in DOMAIN store : store[j].kind = "observation"}}
RowsOfFrame(n) == {i \in DOMAIN store : store[i].frame = n}
Ended(cause) == outcome.state = "ended" /\ outcome.cause = cause
\* position of the first entry e of a log, 0 when it has none
Pos(log, e) ==
    IF e \in Range(log) THEN CHOOSE i \in DOMAIN log : log[i] = e /\ \A j \in 1..(i - 1) : log[j] # e
    ELSE 0
Count(log, name) == Cardinality({i \in DOMAIN log : log[i][1] = name})
\* the messages this run has been given, in order
GivenMsgs == [i \in 1..(Len(frames) - 1) |-> frames[i + 1].msg]

\* C1: a message is marked processed only after the reply that answers its
\* own frame has been handled (persisted, or found empty and dropped): every
\* processed message of the queue has had its own reply handled.
C1_ProcessedOnlyAfterOwnReply ==
    \A i \in DOMAIN queue : queue[i].state = "processed" => queue[i].id \in replied

\* C2: every row written for a reply carries input_tokens +
\* cache_creation_input_tokens + output_tokens of that one reply as its
\* discovery tokens, the same figure for each row of the reply; cache reads do
\* not count and a reply without a usage record gives 0.
C2_DiscoveryIsReplyUsage ==
    \A i \in DOMAIN store : store[i].discovery_tokens = store[i].expect

\* two rows of one reply with the same non-zero figure, written after an
\* earlier reply of the run had already spent tokens
C2_Witness ==
    \E i, j \in DOMAIN store :
        /\ i < j
        /\ store[i].frame = store[j].frame
        /\ store[i].discovery_tokens = 3 * MaxTok
        /\ loops = 1
        /\ frames # <<>>
        /\ store[i].frame > frames[1].seq
        /\ session.cumulativeInputTokens + session.cumulativeOutputTokens
               > store[i].discovery_tokens

\* C3 as stated: for two observations of the session, o1.id < o2.id exactly
\* when the frame that produced o1 was yielded before the frame that produced o2.
C3_OrderIffFrameOrder ==
    \A o1, o2 \in ObsRows : (o1.id < o2.id) <=> (o1.frame < o2.frame)

\* C3 as amended: o1.id < o2.id exactly when the frame that produced o1 was
\* yielded before the frame that produced o2, or both come from the reply to
\* one frame and o1 precedes o2 in the parser's output.
C3_OrderFollowsFramesAndParser ==
    \A o1, o2 \in ObsRows :
        (o1.id < o2.id) <=> \/ o1.frame < o2.frame
                            \/ o1.frame = o2.frame /\ o1.idx < o2.idx

\* observations of two frames and two observations of one frame
C3_Witness ==
    \E o1, o2, o3 \in ObsRows :
        /\ o1.frame < o2.frame
        /\ o2.frame = o3.frame
        /\ o2.idx < o3.idx

C5_CancelKeepsWork ==
    cancelSnap.valid =>
        /\ IsPrefix(cancelSnap.store, store)
        /\ runs = cancelSnap.run =>
              /\ store = cancelSnap.store
              /\ \A i \in DOMAIN queue :
                     (queue[i].id \in Range(cancelSnap.rest) \/ queue[i].id \notin sent)
                         => queue[i].state = "pending"
        /\ (runs = cancelSnap.run + 1 /\ frames # <<>>) =>
              IsPrefix(GivenMsgs,
                       cancelSnap.rest
                       \o Ids(SelectSeq(queue, LAMBDA m : m.id > cancelSnap.maxId)))

\* the handle fired after the first message was answered with two to go, and
\* the next orchestrator has been given those two
C5_Witness ==
    /\ cancelSnap.valid
    /\ cancelSnap.store # <<>>
    /\ cancelSnap.rest = <<2, 3>>
    /\ runs = cancelSnap.run + 1
    /\ GivenMsgs = <<2, 3>>

\* C6: when startSession ends by an error other than the abort, the error is
\* rethrown to the caller, markSessionCompleted has not been called by that
\* run, and the ids that were in pendingProcessingIds are still pending.
C6_FailureLeavesPending ==
    (outcome.state = "ended" /\ outcome.cause \notin {"clean", "AbortError"}) =>
        /\ outcome.threw
        /\ "markSessionCompleted" \notin Range(runLog)
        /\ \A i \in DOMAIN queue :
               queue[i].id \in outcome.pendingIds => queue[i].state = "pending"

\* a store write threw while a message was in flight
C6_Witness == Ended("StoreError") /\ outcome.pendingIds # {}

\* C7: when a store write throws part-way through a reply, none of the rows
\* of that reply written before it remain in the store.
C7_PartialReplyDiscarded ==
    Ended("StoreError") => RowsOfFrame(frames[answered + 1].seq) = {}

\* C8: when the stream ends with the abort, startSession does not throw.
C8_AbortDoesNotThrow == Ended("AbortError") => ~outcome.threw

\* C9: when the vector sync of a row of the latest reply rejects, the row is
\* in the store and its live event follows its sync call in the log; unless a
\* store write threw, every parsed record was stored, the ids were marked and
\* the status event closes the log, and startSession has not failed by it.
C9_SyncRejectionIgnored ==
    \A id \in rejected :
        /\ id \in DOMAIN store
        /\ LET call  == IF store[id].kind = "observation"
                        THEN <<"syncObservation", id>> ELSE <<"syncSummary", id>>
               event == IF store[id].kind = "observation"
                        THEN <<"new_observation", id>> ELSE <<"new_summary", id>>
           IN  0 < Pos(replyLog, call) /\ Pos(replyLog, call) < Pos(replyLog, event)
        /\ ~Ended("StoreError") =>
              /\ Count(replyLog, "storeObservation") = replyLog[1][2]
              /\ Count(replyLog, "storeSummary")
                     = SeqSum([i \in DOMAIN replyLog |->
                                 IF replyLog[i][1] = "parseSummary" THEN replyLog[i][2] ELSE 0])
              /\ Count(replyLog, "parseSummary") = 1
              /\ replyLog[Len(replyLog)] = <<"processing_status", 0>>
              /\ \A i \in DOMAIN replyLog :
                     replyLog[i][1] = "markProcessed" =>
                         \E k \in DOMAIN queue : /\ queue[k].id = replyLog[i][2]
                                                 /\ queue[k].state = "processed"
              /\ outcome.state = "ended" => outcome.cause \in {"clean", "AbortError", "StreamError"}

\* the sync of the first of two observations rejected, both were stored and
\* the message in flight was marked
C9_Witness ==
    /\ rejected # {}
    /\ \E id \in rejected : id + 1 \in DOMAIN store /\ store[id + 1].frame = store[id].frame
    /\ Count(replyLog, "markProcessed") >= 1
    /\ outcome.state = "running"

\* C10: the frames of a run start with one Init frame when lastPromptNumber
\* was 1 at the start, one Continuation frame when it was larger, and every
\* later frame is an Observation or Summarize frame.
C10_OneFirstFrame ==
    frames # <<>> =>
        /\ frames[1].kind = (IF outcome.startPrompt > 1 THEN "Continuation" ELSE "Init")
        /\ outcome.startPrompt >= 1
        /\ \A i \in 2..Len(frames) : frames[i].kind \in {"Observation", "Summarize"}

\* a run that started with a Continuation frame and went on to a message
C10_Witness == frames # <<>> /\ frames[1].kind = "Continuation" /\ Len(frames) >= 2

\* C11: in a run, every message the iterator has yielded has exactly one frame,
\* an Observation frame for an observation and a Summarize frame for a
\* summarize request; the frames are in the order of the queue, and a message
\* that precedes a framed one in the queue was framed before it or had been
\* processed already.
C11_FramesFollowQueue ==
    /\ yielded = {frames[i].msg : i \in 2..Len(frames)}
    /\ \A i \in 2..Len(frames) :
           /\ \E k \in DOMAIN queue :
                  /\ queue[k].id = frames[i].msg
                  /\ frames[i].kind = (IF queue[k].type = "observation"
                                       THEN "Observation" ELSE "Summarize")
           /\ \A j \in 2..(i - 1) : frames[j].msg < frames[i].msg
           /\ \A k \in DOMAIN queue :
                  queue[k].id < frames[i].msg =>
                      \/ queue[k].state = "processed"
                      \/ \E j \in 2..(i - 1) : frames[j].msg = queue[k].id

\* an observation and then a summarize request have been framed, in that order
C11_Witness ==
    /\ Len(frames) = 3
    /\ frames[2].kind = "Observation" /\ frames[2].msg = 1
    /\ frames[3].kind = "Summarize" /\ frames[3].msg = 2

\* C12: no step of the program lowers session.lastPromptNumber, whatever
\* prompt_number the messages carry.
C12_PromptNumberNeverDecreases ==
    [][session'.lastPromptNumber >= session.lastPromptNumber]_vars

\* C13: after an empty reply nothing but the marking has happened: no store
\* write, no vector sync, no new_observation or new_summary event and no
\* performance sample; every id that was in pendingProcessingIds has been
\* marked processed and one processing_status event closes the handling.
C13_EmptyReplyOnlyMarks ==
    (lastReply.handled /\ lastReply.empty) =>
        /\ \A i \in DOMAIN replyLog :
               replyLog[i][1] \in {"markProcessed", "cleanupProcessed", "processing_status"}
        /\ Count(replyLog, "processing_status") = 1
        /\ replyLog[Len(replyLog)][1] = "processing_status"
        /\ {replyLog[i][2] : i \in {j \in DOMAIN replyLog : replyLog[j][1] = "markProcessed"}}
               = lastReply.pending
        /\ \A id \in lastReply.pending :
               \E k \in DOMAIN queue : queue[k].id = id /\ queue[k].state = "processed"

\* an empty reply arrived with a message in flight, after rows had been stored
C13_Witness ==
    /\ lastReply.handled
    /\ lastReply.empty
    /\ lastReply.pending # {}
    /\ store # <<>>

\* C14: every observation row has discovery_tokens >= 0, the usage record of
\* its reply being absent or having any of its fields absent, zero or positive.
C14_DiscoveryNotNegative ==
    \A i \in DOMAIN store :
        store[i].kind = "observation" => store[i].discovery_tokens >= 0

\* an observation row that cost nothing and one that cost tokens
C14_Witness ==
    \E i, j \in DOMAIN store :
        /\ store[i].kind = "observation" /\ store[i].discovery_tokens = 0
        /\ store[j].kind = "observation" /\ store[j].discovery_tokens > 0

\* C15: any two token_update events are at least 1,000 ms apart.
C15_TokenUpdatesApart ==
    \A i, j \in DOMAIN events : i < j => events[j].at - events[i].at >= 1000

\* two events have gone out and a call between them was dropped
C15_Witness ==
    /\ Len(events) >= 2
    /\ \E k \in DOMAIN calls : ~calls[k].passed /\ calls[k].at > events[1].at

\* the token_update events of the five calls from the i-th on
EmittedOfFive(i) == Cardinality({k \in i..(i + 4) : calls[k].emitted})
\* the time of the latest call before the i-th that passed the throttle
LastPassBefore(i) ==
    LET prev == {k \in 1..(i - 1) : calls[k].passed}
    IN  IF prev = {} THEN 0
        ELSE calls[CHOOSE k \in prev : \A l \in prev : l <= k].at

AllCounted ==
    \/ observationsOf(store, NoProject) = <<>>
    \/ \E i \in DOMAIN events :
           events[i].tokens.observations >= Len(observationsOf(store, NoProject))

\* C17: whenever the store holds an observation that no token_update event
\* has counted, an event that counts every observation is eventually emitted.
C17_DroppedUpdateFollows == (~AllCounted) ~> AllCounted

\* C18: every token_update event counts the observations the store held
\* when it was emitted.
C18_UpdateCountsStore ==
    \A i \in DOMAIN events : events[i].tokens.observations = events[i].rows

\* C19: the answer to a Summary query is never older than the latest insert:
\* it has the figures of the store at the time of the query.
C19_SummaryAfterInsertIsFresh ==
    lastQuery.query = "summary" => lastQuery.data = lastQuery.fresh

\* C20: a query is answered from the cache exactly when the cache holds an
\* entry for its key that is younger than the TTL of the query (300 s for the
\* projection, 30 s for the others), and then with that entry; otherwise it is
\* answered from the store and the answer replaces the entry.
C20_CachedOnlyWithinTtl ==
    lastQuery.query # "none" =>
        /\ lastQuery.hit <=>
               /\ lastQuery.entry.present
               /\ lastQuery.at - lastQuery.entry.timestamp
                      < (IF lastQuery.query = "projection" THEN PROJECTION_CACHE_TTL_MS
                         ELSE CACHE_TTL_MS)
        /\ lastQuery.hit =>
               /\ lastQuery.data = lastQuery.entry.data
               /\ lastQuery.kept = [data |-> lastQuery.entry.data,
                                    timestamp |-> lastQuery.entry.timestamp]
        /\ ~lastQuery.hit =>
               /\ lastQuery.data = lastQuery.fresh
               /\ lastQuery.kept = [data |-> lastQuery.fresh, timestamp |-> lastQuery.at]

\* the all-zero projection of a project without observations, answered from
\* the cache one millisecond before its TTL is over, the store not being empty
C20_Witness ==
    /\ lastQuery.query = "projection"
    /\ lastQuery.project = "nonesuch"
    /\ lastQuery.hit
    /\ lastQuery.at - lastQuery.entry.timestamp = PROJECTION_CACHE_TTL_MS - 1
    /\ lastQuery.data = totalsOf(<<>>)
    /\ store # <<>>

\* C21: invalidateCache(p) removes exactly the entries whose key names project
\* p and invalidateCache() exactly the summary entries; every other entry is
\* left as it was
C21_Referenced(k, p) ==
    IF p = NoProject THEN k.query = "summary" ELSE k.project = p

C21_InvalidateRemovesExactly ==
    calc.op = "invalidateCache" =>
        /\ DOMAIN calc.after =
               {k \in DOMAIN calc.before : ~C21_Referenced(k, calc.project)}
        /\ \A k \in DOMAIN calc.after : calc.after[k] = calc.before[k]

\* the rows of a table that a project filter keeps, in insert order
RowsOfProject(rows, p) ==
    SelectSeq(rows, LAMBDA r : p = NoProject \/ r.project = p)

\* the one observation of the example: title "ok", 40 discovery tokens
ExampleTable ==
    /\ Len(calc.rows) = 1
    /\ [calc.rows[1] EXCEPT !.created_at_epoch = 0]
         = [BaseRow EXCEPT !.title = 2, !.discovery_tokens = 40]
    /\ calc.project \in {NoProject, SessionProject}

\* C22: a Summary satisfies savings + totalReadTokens = totalDiscoveryTokens,
\* where totalDiscoveryTokens is the sum of the discovery tokens of the rows the
\* filter keeps; savingsPercent is 0 when totalDiscoveryTokens is 0 and
\* efficiencyGain is 0 when totalReadTokens is 0; one observation with title
\* "ok" and 40 discovery tokens gives 1 read token, savings 39, 98 percent and
\* an efficiency gain of 40.0
C22_SummaryMath ==
    calc.op = "getSummary" =>
        LET r == calc.result
            kept == RowsOfProject(calc.rows, calc.project)
        IN  /\ r.savings + r.totalReadTokens = r.totalDiscoveryTokens
            /\ r.totalDiscoveryTokens =
                   SeqSum([i \in DOMAIN kept |-> OrZero(kept[i].discovery_tokens)])
            /\ r.totalObservations = Len(kept)
            /\ (r.totalDiscoveryTokens = 0 => r.savingsPercent = 0)
            /\ (r.totalReadTokens = 0 => r.efficiencyGain = 0)
            /\ (ExampleTable =>
                   /\ r.totalObservations = 1
                   /\ r.totalReadTokens = 1
                   /\ r.totalDiscoveryTokens = 40
                   /\ r.savings = 39
                   /\ r.savingsPercent = 98
                   /\ r.efficiencyGain = 400)

C22_Witness ==
    /\ calc.op = "getSummary"
    /\ ExampleTable
    /\ calc.result.savings = 39

\* C23: the read tokens a Summary counts for an observation are ceil(S/4),
\* S being the lengths of title, subtitle and narrative plus the summed element
\* lengths of facts, concepts, files_read and files_modified
C23_ReadTokensCountEveryField ==
    calc.op = "getSummary" =>
        LET kept == RowsOfProject(calc.rows, calc.project)
        IN  calc.result.totalReadTokens =
                SeqSum([i \in DOMAIN kept |-> calculateReadTokens(kept[i])])

\* C24: the by-project row of a project reports the readTokens,
\* discoveryTokens and savings of the Summary filtered to that project
C24_ByProjectAgreesWithSummary ==
    calc.op = "getByProject" =>
        \A i \in DOMAIN calc.result.projects :
            LET row == calc.result.projects[i]
                summary == TokenSummary(calc.rows, row.project, Undef)
            IN  /\ row.readTokens = summary.totalReadTokens
                /\ row.discoveryTokens = summary.totalDiscoveryTokens
                /\ row.savings = summary.savings

\* C25: getQuickSummary returns the totalDiscoveryTokens, totalReadTokens,
\* savings and savingsPercent of a freshly computed unfiltered Summary
C25_QuickSummaryAgreesWithSummary ==
    calc.op = "getQuickSummary" =>
        LET summary == TokenSummary(calc.rows, NoProject, Undef)
        IN  /\ calc.result.totalDiscoveryTokens = summary.totalDiscoveryTokens
            /\ calc.result.totalReadTokens = summary.totalReadTokens
            /\ calc.result.savings = summary.savings
            /\ calc.result.savingsPercent = summary.savingsPercent

\* the N most recent observations of a project, newest first: rows are
\* inserted in the order of their timestamps
C26_Recent ==
    LET kept == RowsOfProject(calc.rows, calc.project)
        n == IF Len(kept) < calc.arg THEN Len(kept) ELSE calc.arg
    IN  [i \in 1..n |-> kept[Len(kept) + 1 - i]]

\* the sum over the steps of the running context of the sizes x[1], x[2], ...
C26_Continuation(x) ==
    SeqSum([i \in DOMAIN x |-> SeqSum(SubSeq(x, 1, i))])

C28_Pushed(before, after, cap) ==
    /\ after # <<>>
    /\ after = (IF Len(before) = cap THEN Tail(before) ELSE before)
                   \o <<after[Len(after)]>>

\* C28: the queue history never holds more than 1000 samples nor the
\* processing-time buffer more than 500 records; a record pushed into a full
\* buffer evicts the oldest entry and the others keep their insertion order
C28_BuffersBounded ==
    /\ Len(tracker.queueHistory) <= MAX_QUEUE_HISTORY
    /\ Len(tracker.processingTimes) <= MAX_PROCESSING_TIMES
    /\ calc.op = "recordObservationProcessed" =>
        /\ C28_Pushed(calc.before.processingTimes, calc.after.processingTimes,
                      MAX_PROCESSING_TIMES)
        /\ \/ calc.after.queueHistory = calc.before.queueHistory
           \/ C28_Pushed(calc.before.queueHistory, calc.after.queueHistory,
                         MAX_QUEUE_HISTORY)

C28_Witness ==
    /\ calc.op = "recordObservationProcessed"
    /\ Len(calc.before.queueHistory) = MAX_QUEUE_HISTORY
    /\ Len(calc.before.processingTimes) = MAX_PROCESSING_TIMES
    /\ calc.after.queueHistory # calc.before.queueHistory
    /\ calc.after.processingTimes[1] = calc.before.processingTimes[2]
    /\ calc.after.queueHistory[1] = calc.before.queueHistory[2]

\* C29: no two stored queue samples are less than 5 s apart, and a call made
\* within 5 s of the last stored sample leaves the queue history and the
\* last-sample time as they were
C29_SamplesApart ==
    /\ \A i \in 1..(Len(tracker.queueHistory) - 1) :
           tracker.queueHistory[i + 1].timestamp - tracker.queueHistory[i].timestamp
               >= SAMPLE_INTERVAL_MS
    /\ (/\ calc.op = "recordObservationProcessed"
        /\ calc.now - calc.before.lastSampleTime < SAMPLE_INTERVAL_MS)
       => /\ calc.after.queueHistory = calc.before.queueHistory
          /\ calc.after.lastSampleTime = calc.before.lastSampleTime

C29_Witness ==
    /\ calc.op = "recordObservationProcessed"
    /\ calc.before.queueHistory # <<>>
    /\ calc.now - calc.before.lastSampleTime = SAMPLE_INTERVAL_MS - 1
    /\ calc.after.queueHistory = calc.before.queueHistory
    /\ Len(calc.after.processingTimes) > Len(calc.before.processingTimes)

\* the durations of the records an answer of getProcessingTimes returns,
\* sorted ascending
C30_Durations ==
    sortAscending([i \in DOMAIN calc.result.times |-> calc.result.times[i].duration])

\* the element of the sorted durations at index ceil(p/100 * n) - 1, counted
\* from 0: the k-th smallest, k being the least integer with 100 * k >= p * n
C30_NearestRank(p) ==
    LET n == Len(C30_Durations)
        k == CHOOSE j \in 1..n : 100 * j >= p * n /\ 100 * (j - 1) < p * n
    IN  C30_Durations[k]

\* C30: over a non-empty filtered set of durations, sorted ascending, p50 and
\* p95 are the elements at index ceil(p/100 * n) - 1 and avg is the mean rounded
\* to the nearest integer; [10, 20, 30, 40, 50] give avg 30, p50 30, p95 50
C30_NearestRankPercentiles ==
    (calc.op = "getProcessingTimes" /\ calc.result.times # <<>>) =>
        LET d == C30_Durations
            n == Len(d)
            stats == calc.result.stats
        IN  /\ \A i \in 1..(n - 1) : d[i] <= d[i + 1]
            /\ stats.p50ProcessingTime = C30_NearestRank(50)
            /\ stats.p95ProcessingTime = C30_NearestRank(95)
            /\ 2 * stats.avgProcessingTime * n - n <= 2 * SeqSum(d)
            /\ 2 * SeqSum(d) < 2 * stats.avgProcessingTime * n + n
            /\ (d = <<10, 20, 30, 40, 50>> =>
                   /\ stats.avgProcessingTime = 30
                   /\ stats.p50ProcessingTime = 30
                   /\ stats.p95ProcessingTime = 50)

C30_Witness ==
    /\ calc.op = "getProcessingTimes"
    /\ C30_Durations = <<10, 20, 30, 40, 50>>
    /\ calc.result.times[1].duration = 50
    /\ calc.result.stats.p95ProcessingTime = 50
    /\ calc.result.stats.p50ProcessingTime = 30

\* C27: a since that is neither digits followed by h, d or w nor a timestamp
\* excludes nothing: the summary and the by-project rows count every
\* observation of the table, the time series every observation, and the
\* tracker's answers hold every sample and record up to the limit
C27_UnparseableSinceExcludesNothing ==
    (calc.op \in {"getSummary", "getByProject", "getTimeSeries", "getQueueHistory",
                  "getProcessingTimes"}
     /\ calc.since = OtherSince) =>
        CASE calc.op = "getSummary" ->
                calc.result.totalObservations = Len(calc.rows)
          [] calc.op = "getByProject" ->
                SeqSum([i \in DOMAIN calc.result.projects |->
                           calc.result.projects[i].observations]) = Len(calc.rows)
          [] calc.op = "getTimeSeries" ->
                SeqSum([i \in DOMAIN calc.result.series |->
                           calc.result.series[i].observations]) = Len(calc.rows)
          [] calc.op = "getQueueHistory" ->
                calc.result.history = lastOf(calc.tracker.queueHistory, DefaultLimit)
          [] OTHER ->
                calc.result.times = lastOf(calc.tracker.processingTimes, DefaultLimit)

\* C31: when getProcessingTimes finds no record in its filter, every field of
\* the stats it returns is 0 (the averages, the percentiles, the rate, and the
\* two queue depths), whatever the queue history holds
C31_EmptyGivesZeros ==
    (calc.op = "getProcessingTimes" /\ calc.result.times = <<>>)
        => \A f \in DOMAIN calc.result.stats : calc.result.stats[f] = 0

\* the positions of the log of the last reply with an entry of one of the names
At(names) == {i \in DOMAIN replyLog : replyLog[i][1] \in names}
\* the records the parser found in the last reply
ParsedOf(r) == r.nObs + (IF r.hasSummary THEN 1 ELSE 0)

\* C32: within the handling of one reply, no pending id is marked processed
\* before every observation and the summary parsed from that reply have been
\* persisted: a marking follows every store write of the reply, and no
\* marking is made unless all the parsed records were written.
C32_MarkAfterPersistence ==
    (lastReply.handled /\ At({"markProcessed"}) # {}) =>
        /\ \A i \in At({"markProcessed"}), j \in At({"storeObservation", "storeSummary"}) :
               j < i
        /\ Cardinality(At({"storeObservation", "storeSummary"})) = ParsedOf(lastReply)

\* a reply with two observations and a summary was persisted and the pending
\* ids were marked
C32_Witness ==
    /\ lastReply.handled
    /\ lastReply.nObs = 2
    /\ lastReply.hasSummary
    /\ Cardinality(At({"storeObservation", "storeSummary"})) = 3
    /\ At({"markProcessed"}) # {}

\* the entries of one name in the log of the last reply are in the parser's
\* output order
InParserOrder(name) ==
    \A i, j \in At({name}) :
        i < j => store[replyLog[i][2]].idx < store[replyLog[j][2]].idx

\* C33: within one reply the observations are persisted, handed to vector
\* sync and announced by new_observation in the parser's output order; each
\* observation is persisted before it is handed to sync and before its own
\* new_observation event; the summary is persisted before it is announced,
\* and both come after everything done for the observations of the reply.
C33_PersistSyncAnnounceInOrder ==
    lastReply.handled =>
        /\ InParserOrder("storeObservation")
        /\ InParserOrder("syncObservation")
        /\ InParserOrder("new_observation")
        /\ \A i \in At({"syncObservation", "new_observation"}) :
               /\ Pos(replyLog, <<"storeObservation", replyLog[i][2]>>) > 0
               /\ Pos(replyLog, <<"storeObservation", replyLog[i][2]>>) < i
        /\ \A i \in At({"syncSummary", "new_summary"}) :
               /\ Pos(replyLog, <<"storeSummary", replyLog[i][2]>>) > 0
               /\ Pos(replyLog, <<"storeSummary", replyLog[i][2]>>) < i
        /\ \A i \in At({"storeSummary", "syncSummary", "new_summary"}),
              j \in At({"storeObservation", "syncObservation", "new_observation"}) :
               j < i

\* two observations and a summary of one reply were announced
C33_Witness ==
    /\ lastReply.handled
    /\ Cardinality(At({"new_observation"})) = 2
    /\ Cardinality(At({"syncObservation"})) = 2
    /\ At({"new_summary"}) # {}

\* the ids marked processed in the handling of the last reply
MarkedOf == {replyLog[i][2] : i \in At({"markProcessed"})}
\* cleanupProcessed(100) has been run once, after every marking
CleanedAfterMarking ==
    /\ Cardinality(At({"cleanupProcessed"})) = 1
    /\ \A i \in At({"cleanupProcessed"}) :
           /\ replyLog[i][2] = 100
           /\ \A j \in At({"markProcessed"}) : j < i

\* C34 as stated: after the handling of every assistant reply, empty or not,
\* every id that was in pendingProcessingIds has been marked processed, the
\* set is empty, cleanupProcessed(100) has been run after the marking, and one
\* processing_status event has been emitted.
C34_EveryReplyMarksAndCleans ==
    lastReply.handled =>
        /\ MarkedOf = lastReply.pending
        /\ lastReply.left = {}
        /\ CleanedAfterMarking
        /\ Count(replyLog, "processing_status") = 1

\* C34 as amended: after the handling of every assistant reply that returns,
\* empty or not, every id that was in pendingProcessingIds has been marked
\* processed, the set is empty and one processing_status event has been
\* emitted, as the last step; cleanupProcessed(100) has been run after the
\* marking when the set held an id, and has not been run when it held none.
C34_MarksAndCleansWhatWasPending ==
    (lastReply.handled /\ lastReply.error = "none") =>
        /\ MarkedOf = lastReply.pending
        /\ lastReply.left = {}
        /\ IF lastReply.pending # {} THEN CleanedAfterMarking
           ELSE At({"cleanupProcessed"}) = {}
        /\ Count(replyLog, "processing_status") = 1
        /\ replyLog[Len(replyLog)][1] = "processing_status"

\* a reply with records was handled with two ids pending, and the cleanup ran
C34_Witness ==
    /\ lastReply.handled
    /\ lastReply.error = "none"
    /\ ~lastReply.empty
    /\ Cardinality(lastReply.pending) = 2
    /\ At({"cleanupProcessed"}) # {}
    /\ At({"storeObservation"}) # {}

\* C35: exactly one performance sample is recorded for each non-empty reply
\* whose parse yields at least one observation or a summary, with
\* observationCount the number of parsed observations; none is recorded only
\* when the parse yields no observation and no summary.
C35_OneSamplePerReplyWithRecords ==
    (lastReply.handled /\ ~lastReply.empty /\ lastReply.error = "none") =>
        IF ParsedOf(lastReply) > 0
        THEN /\ Cardinality(At({"recordObservationProcessed"})) = 1
             /\ \A i \in At({"recordObservationProcessed"}) :
                    replyLog[i][2] = lastReply.nObs
        ELSE At({"recordObservationProcessed"}) = {}

\* the positions of a step in the log of the end of the last run
EndAt(step) == {i \in DOMAIN runLog : runLog[i] = step}

\* C36: on every way startSession ends (the reply stream ended, a
\* cancellation, a failure) the deletion of the session is requested exactly
\* once; on the clean path it is requested after markSessionCompleted, and
\* markSessionCompleted is invoked on no other path.
C36_DeleteOnceCompleteOnlyWhenClean ==
    outcome.state = "ended" =>
        /\ Cardinality(EndAt("deleteSession")) = 1
        /\ IF outcome.cause = "clean"
           THEN /\ Cardinality(EndAt("markSessionCompleted")) = 1
                /\ \A i \in EndAt("markSessionCompleted"), j \in EndAt("deleteSession") :
                       i < j
           ELSE EndAt("markSessionCompleted") = {}

\* a run has ended by a cancellation after an earlier one ended cleanly, and
\* the session was deleted
C36_Witness ==
    /\ Ended("AbortError")
    /\ completed = 1
    /\ EndAt("deleteSession") # {}
    /\ ~session.active

\* the frames of this run that a queued observation message with a prompt
\* number was translated into
NumberedFrames ==
    {k \in DOMAIN frames :
        \E q \in DOMAIN queue : /\ queue[q].id = frames[k].msg
                                /\ queue[q].type = "observation"
                                /\ queue[q].prompt_number # Undef}
MsgOf(k) == queue[CHOOSE q \in DOMAIN queue : queue[q].id = frames[k].msg]

\* C37: every observation and summary is persisted with the prompt number of
\* the message whose reply produced it, also when a later message with
\* another prompt_number has been yielded to the analyzer before that reply
\* is handled.
C37_RowsCarryPromptOfOwnMessage ==
    \A i \in DOMAIN store, k \in NumberedFrames :
        store[i].frame = frames[k].seq
            => store[i].prompt_number = MsgOf(k).prompt_number

\* C38: two metrics queries of one kind with different filter values never
\* share a cache entry: an answer taken from the cache was computed for the
\* filters of the query that receives it, that is, from the rows its filters
\* select in the store as it was at some moment (a project named "all" is
\* not answered with the figures of the query without a project).
C38_CachedAnswerIsOfSameFilters ==
    lastQuery.hit =>
        \E k \in 0..Len(store) :
            lastQuery.data = totalsOf(rowsRead(lastQuery.query, SubSeq(store, 1, k),
                                               lastQuery.project))

\* the worker reports ready: the flag is set and the endpoint answers 200
ReportsReady(w) == w.initializationCompleteFlag /\ readiness(w) = 200

\* C39: the worker reports ready (initialized flag true, readiness endpoint
\* answering 200 instead of 503) only after the database initialization, the
\* registration of the token-metrics routes and the MCP connection have all
\* succeeded; a worker whose initialization failed at one of these steps, or
\* whose MCP connection lost the race against its 15 s timer, never reports
\* ready; once ready it never reverts.
C39_ReadyOnlyAfterInitialization ==
    /\ [](/\ ReportsReady(worker) => worker.initSteps = {"db", "routes", "mcp"}
          /\ calc.op = "readiness" =>
                 (calc.status = 200 => calc.worker.initSteps = {"db", "routes", "mcp"})
          /\ worker.init = "failed" => ~ReportsReady(worker))
    /\ [][/\ ReportsReady(worker) => ReportsReady(worker')
          /\ worker.init = "failed" => worker'.init = "failed"]_vars

\* the endpoint answered 200 after the MCP connection was made a millisecond
\* before its timer could have fired
C39_Witness ==
    /\ calc.op = "readiness"
    /\ calc.status = 200
    /\ calc.at = StartTime + MCP_INIT_TIMEOUT_MS - 1
    /\ calc.worker.init = "done"
    /\ worker.init = "done"

====
